---- MODULE Spec2Model ----
(***************************************************************************)
(* Concurrent task-processing machinery of go-practice: the worker pools,  *)
(* the fan-out / fan-in pipelines, the priority and batching dispatch and  *)
(* the cancellation contexts.  Every example function of the repository is *)
(* one state machine: its goroutines are the processes, its channels,      *)
(* counters and wait groups are the variables.  time.Sleep is a delay of   *)
(* arbitrary length: it orders nothing, so every interleaving is a run.    *)
(***************************************************************************)
EXTENDS Integers, Sequences, FiniteSets, TLC

(***************************************************************************)
(* Helpers shared by the examples.                                         *)
(***************************************************************************)
RECURSIVE SumSeq(_)
SumSeq(s) == IF s = <<>> THEN 0 ELSE Head(s) + SumSeq(Tail(s))

RECURSIVE SumOver(_, _)
SumOver(f, S) ==
    IF S = {} THEN 0
    ELSE LET x == CHOOSE y \in S : TRUE IN f[x] + SumOver(f, S \ {x})

Range(s) == {s[i] : i \in 1..Len(s)}

\* number of positions of the sequence s holding the value v
Count(s, v) == Cardinality({i \in 1..Len(s) : s[i] = v})

(***************************************************************************)
(* WorkerPoolWithDynamicScaling (part_012:435-492).                        *)
(*                                                                         *)
(* The worker goroutines run the same closure and differ only in the id    *)
(* they print, so they are kept as a count per program position:           *)
(*   "start"  spawned, workerCount++ not yet done   (before line 448)      *)
(*   "range"  at `for job := range jobs`            (line 458)             *)
(*   "work"   holding a job, before `results <-`    (lines 459-461)        *)
(*   "exit"   loop ended, deferred workerCount-- pending (lines 452-456)   *)
(*   "gone"   returned                                                     *)
(* Lock(); ...; Unlock() sections are single steps: mu makes them atomic.  *)
(***************************************************************************)
VARIABLES
    dsJobs,        \* buffered channel jobs: the values waiting in it
    dsJobsClosed,  \* close(jobs) has run
    dsResults,     \* number of values waiting in the channel results
    dsCollected,   \* results received by the collector loop (r - 1)
    workerCount,   \* the shared counter guarded by mu
    dsWorkers,     \* number of worker goroutines at each program position
    dsJ,           \* the dispatcher's loop variable j
    dsPc           \* the dispatcher's position: "send", "scale", "closed"

dsVars == <<dsJobs, dsJobsClosed, dsResults, dsCollected, workerCount,
            dsWorkers, dsJ, dsPc>>

maxWorkers == 5
numJobsDyn == 15
initialWorkers == 2
scaleEvery == 3

WorkerPcs == {"start", "range", "work", "exit", "gone"}
LivePcs == {"start", "range", "work", "exit"}

\* worker goroutines that have been started and have not returned
LiveWorkers == SumOver(dsWorkers, LivePcs)

\* one worker goroutine moves from position a to position b
MoveWorker(a, b) ==
    dsWorkers' = [dsWorkers EXCEPT ![a] = @ - 1, ![b] = @ + 1]

InitDyn ==
    /\ dsJobs = <<>>
    /\ dsJobsClosed = FALSE
    /\ dsResults = 0
    /\ dsCollected = 0
    /\ workerCount = 0
    /\ dsWorkers = [p \in WorkerPcs |-> IF p = "start" THEN initialWorkers ELSE 0]
    /\ dsJ = 1
    /\ dsPc = "send"

\* the dispatcher's scale-up test, evaluated while it holds mu (line 477)
ScaleUpNeeded == workerCount < maxWorkers /\ dsJ % scaleEvery = 0

\* startWorker: mu.Lock(); workerCount++; mu.Unlock()  (lines 448-450)
DynWorkerStart ==
    /\ dsWorkers["start"] > 0
    /\ workerCount' = workerCount + 1
    /\ MoveWorker("start", "range")
    /\ UNCHANGED <<dsJobs, dsJobsClosed, dsResults, dsCollected, dsJ, dsPc>>

\* for job := range jobs: a value is received  (line 458)
DynWorkerRecv ==
    /\ dsWorkers["range"] > 0
    /\ dsJobs # <<>>
    /\ dsJobs' = Tail(dsJobs)
    /\ MoveWorker("range", "work")
    /\ UNCHANGED <<dsJobsClosed, dsResults, dsCollected, workerCount, dsJ, dsPc>>

\* results <- job * 6  (line 461); the channel holds numJobs values
DynWorkerSend ==
    /\ dsWorkers["work"] > 0
    /\ dsResults < numJobsDyn
    /\ dsResults' = dsResults + 1
    /\ MoveWorker("work", "range")
    /\ UNCHANGED <<dsJobs, dsJobsClosed, dsCollected, workerCount, dsJ, dsPc>>

\* the range loop ends: jobs is closed and drained  (line 458)
DynWorkerRangeEnd ==
    /\ dsWorkers["range"] > 0
    /\ dsJobs = <<>>
    /\ dsJobsClosed
    /\ MoveWorker("range", "exit")
    /\ UNCHANGED <<dsJobs, dsJobsClosed, dsResults, dsCollected, workerCount, dsJ, dsPc>>

\* the deferred mu.Lock(); workerCount--; mu.Unlock()  (lines 452-456)
DynWorkerExit ==
    /\ dsWorkers["exit"] > 0
    /\ workerCount' = workerCount - 1
    /\ MoveWorker("exit", "gone")
    /\ UNCHANGED <<dsJobs, dsJobsClosed, dsResults, dsCollected, dsJ, dsPc>>

\* jobs <- j  (line 473); the channel holds numJobs values, so it never blocks
DynDispatchSend ==
    /\ dsPc = "send"
    /\ dsJ <= numJobsDyn
    /\ Len(dsJobs) < numJobsDyn
    /\ dsJobs' = Append(dsJobs, dsJ)
    /\ dsPc' = "scale"
    /\ UNCHANGED <<dsJobsClosed, dsResults, dsCollected, workerCount, dsWorkers, dsJ>>

\* mu.Lock(); if workerCount < maxWorkers && j%3 == 0 { go startWorker(..) };
\* mu.Unlock(); j++  (lines 476-482)
DynDispatchScale ==
    /\ dsPc = "scale"
    /\ IF ScaleUpNeeded
          THEN dsWorkers' = [dsWorkers EXCEPT !["start"] = @ + 1]
          ELSE UNCHANGED dsWorkers
    /\ dsJ' = dsJ + 1
    /\ dsPc' = "send"
    /\ UNCHANGED <<dsJobs, dsJobsClosed, dsResults, dsCollected, workerCount>>

\* close(jobs) after the loop  (line 484)
DynDispatchClose ==
    /\ dsPc = "send"
    /\ dsJ > numJobsDyn
    /\ dsJobsClosed' = TRUE
    /\ dsPc' = "closed"
    /\ UNCHANGED <<dsJobs, dsResults, dsCollected, workerCount, dsWorkers, dsJ>>

\* result := <-results in the collector loop  (lines 488-491)
DynCollect ==
    /\ dsCollected < numJobsDyn
    /\ dsResults > 0
    /\ dsResults' = dsResults - 1
    /\ dsCollected' = dsCollected + 1
    /\ UNCHANGED <<dsJobs, dsJobsClosed, workerCount, dsWorkers, dsJ, dsPc>>

\* C1: in every reachable state of the dynamically scaled pool the shared
\* counter workerCount and the number of live worker goroutines are both at
\* most maxWorkers, whatever the interleaving of the dispatcher's scale-up
\* check and the spawned workers' increments.
C1_WorkersWithinBound ==
    /\ workerCount <= maxWorkers
    /\ LiveWorkers <= maxWorkers

(***************************************************************************)
(* WorkerPoolWithMetrics (part_012:362-432).                               *)
(* main sends the jobs, closes jobs, runs the collector loop (a receive    *)
(* or a 100ms timeout per iteration), closes results and then reads one    *)
(* Metrics value per worker.  A send on the closed results channel panics  *)
(* and the panic ends the program.                                         *)
(***************************************************************************)
VARIABLES
    mpJobs,          \* buffered channel jobs
    mpJobsClosed,    \* close(jobs) has run
    mpResults,       \* buffered channel results
    mpResultsClosed, \* close(results) has run
    mpMetrics,       \* buffered channel metrics
    mpPc,            \* worker -> "range", "work", "metrics", "done"
    mpJob,           \* worker -> the job it holds (0: none)
    mpProcessed,     \* worker -> its local counter processed
    mpErrors,        \* worker -> its local counter errors
    mpMain,          \* main's position: "send", "collect", "metrics", "done"
    mpI,             \* main's loop variable (j, r or w)
    mpPanic,         \* a goroutine panicked: the program is gone
    mpEmitted        \* history: job -> results placed on the channel for it

mpVars == <<mpJobs, mpJobsClosed, mpResults, mpResultsClosed, mpMetrics, mpPc,
            mpJob, mpProcessed, mpErrors, mpMain, mpI, mpPanic, mpEmitted>>

numWorkersMetrics == 3
\* the example sends 9 jobs (line 372); the model runs it with fewer
numJobsMetrics == 5
failEvery == 4
resultFactorMetrics == 5

MpWorkers == 1..numWorkersMetrics
MpJobIds == 1..numJobsMetrics

\* the simulated failure of the metrics worker (line 392)
MetricsJobFails(job) == job % failEvery = 0

InitMetrics ==
    /\ mpJobs = <<>>
    /\ mpJobsClosed = FALSE
    /\ mpResults = <<>>
    /\ mpResultsClosed = FALSE
    /\ mpMetrics = <<>>
    /\ mpPc = [w \in MpWorkers |-> "range"]
    /\ mpJob = [w \in MpWorkers |-> 0]
    /\ mpProcessed = [w \in MpWorkers |-> 0]
    /\ mpErrors = [w \in MpWorkers |-> 0]
    /\ mpMain = "send"
    /\ mpI = 1
    /\ mpPanic = FALSE
    /\ mpEmitted = [j \in MpJobIds |-> 0]

\* for job := range jobs: a value is received  (line 385)
MpWorkerRecv(w) ==
    /\ ~mpPanic
    /\ mpPc[w] = "range"
    /\ mpJobs # <<>>
    /\ mpJob' = [mpJob EXCEPT ![w] = Head(mpJobs)]
    /\ mpJobs' = Tail(mpJobs)
    /\ mpPc' = [mpPc EXCEPT ![w] = "work"]
    /\ UNCHANGED <<mpJobsClosed, mpResults, mpResultsClosed, mpMetrics,
                   mpProcessed, mpErrors, mpMain, mpI, mpPanic, mpEmitted>>

\* if job%4 == 0 { errors++ }  (lines 392-394): nothing is sent
MpWorkerFail(w) ==
    /\ ~mpPanic
    /\ mpPc[w] = "work"
    /\ MetricsJobFails(mpJob[w])
    /\ mpErrors' = [mpErrors EXCEPT ![w] = @ + 1]
    /\ mpJob' = [mpJob EXCEPT ![w] = 0]
    /\ mpPc' = [mpPc EXCEPT ![w] = "range"]
    /\ UNCHANGED <<mpJobs, mpJobsClosed, mpResults, mpResultsClosed, mpMetrics,
                   mpProcessed, mpMain, mpI, mpPanic, mpEmitted>>

\* else { results <- job * 5; processed++ }  (lines 395-398)
MpWorkerSend(w) ==
    /\ ~mpPanic
    /\ mpPc[w] = "work"
    /\ ~MetricsJobFails(mpJob[w])
    /\ ~mpResultsClosed
    /\ Len(mpResults) < numJobsMetrics
    /\ mpResults' = Append(mpResults, mpJob[w] * resultFactorMetrics)
    /\ mpEmitted' = [mpEmitted EXCEPT ![mpJob[w]] = @ + 1]
    /\ mpProcessed' = [mpProcessed EXCEPT ![w] = @ + 1]
    /\ mpJob' = [mpJob EXCEPT ![w] = 0]
    /\ mpPc' = [mpPc EXCEPT ![w] = "range"]
    /\ UNCHANGED <<mpJobs, mpJobsClosed, mpResultsClosed, mpMetrics,
                   mpErrors, mpMain, mpI, mpPanic>>

\* results <- job * 5 after close(results): send on closed channel panics
MpWorkerSendPanic(w) ==
    /\ ~mpPanic
    /\ mpPc[w] = "work"
    /\ ~MetricsJobFails(mpJob[w])
    /\ mpResultsClosed
    /\ mpPanic' = TRUE
    /\ UNCHANGED <<mpJobs, mpJobsClosed, mpResults, mpResultsClosed, mpMetrics,
                   mpPc, mpJob, mpProcessed, mpErrors, mpMain, mpI, mpEmitted>>

\* the range loop ends: jobs is closed and drained  (line 385)
MpWorkerRangeEnd(w) ==
    /\ ~mpPanic
    /\ mpPc[w] = "range"
    /\ mpJobs = <<>>
    /\ mpJobsClosed
    /\ mpPc' = [mpPc EXCEPT ![w] = "metrics"]
    /\ UNCHANGED <<mpJobs, mpJobsClosed, mpResults, mpResultsClosed, mpMetrics,
                   mpJob, mpProcessed, mpErrors, mpMain, mpI, mpPanic, mpEmitted>>

\* metrics <- Metrics{...}  (lines 402-406)
MpWorkerMetrics(w) ==
    /\ ~mpPanic
    /\ mpPc[w] = "metrics"
    /\ Len(mpMetrics) < numWorkersMetrics
    /\ mpMetrics' = Append(mpMetrics, [JobsProcessed |-> mpProcessed[w],
                                       Errors |-> mpErrors[w]])
    /\ mpPc' = [mpPc EXCEPT ![w] = "done"]
    /\ UNCHANGED <<mpJobs, mpJobsClosed, mpResults, mpResultsClosed,
                   mpJob, mpProcessed, mpErrors, mpMain, mpI, mpPanic, mpEmitted>>

\* jobs <- j  (lines 411-413)
MpMainSend ==
    /\ ~mpPanic
    /\ mpMain = "send"
    /\ mpI <= numJobsMetrics
    /\ Len(mpJobs) < numJobsMetrics
    /\ mpJobs' = Append(mpJobs, mpI)
    /\ mpI' = mpI + 1
    /\ UNCHANGED <<mpJobsClosed, mpResults, mpResultsClosed, mpMetrics, mpPc,
                   mpJob, mpProcessed, mpErrors, mpMain, mpPanic, mpEmitted>>

\* close(jobs)  (line 414)
MpMainCloseJobs ==
    /\ ~mpPanic
    /\ mpMain = "send"
    /\ mpI > numJobsMetrics
    /\ mpJobsClosed' = TRUE
    /\ mpMain' = "collect"
    /\ mpI' = 1
    /\ UNCHANGED <<mpJobs, mpResults, mpResultsClosed, mpMetrics, mpPc,
                   mpJob, mpProcessed, mpErrors, mpPanic, mpEmitted>>

\* case result := <-results  (line 419)
MpMainCollect ==
    /\ ~mpPanic
    /\ mpMain = "collect"
    /\ mpI <= numJobsMetrics
    /\ mpResults # <<>>
    /\ mpResults' = Tail(mpResults)
    /\ mpI' = mpI + 1
    /\ UNCHANGED <<mpJobs, mpJobsClosed, mpResultsClosed, mpMetrics, mpPc,
                   mpJob, mpProcessed, mpErrors, mpMain, mpPanic, mpEmitted>>

\* case <-time.After(100 * time.Millisecond)  (line 421)
MpMainTimeout ==
    /\ ~mpPanic
    /\ mpMain = "collect"
    /\ mpI <= numJobsMetrics
    /\ mpI' = mpI + 1
    /\ UNCHANGED <<mpJobs, mpJobsClosed, mpResults, mpResultsClosed, mpMetrics,
                   mpPc, mpJob, mpProcessed, mpErrors, mpMain, mpPanic, mpEmitted>>

\* close(results)  (line 427)
MpMainCloseResults ==
    /\ ~mpPanic
    /\ mpMain = "collect"
    /\ mpI > numJobsMetrics
    /\ mpResultsClosed' = TRUE
    /\ mpMain' = "metrics"
    /\ mpI' = 1
    /\ UNCHANGED <<mpJobs, mpJobsClosed, mpResults, mpMetrics, mpPc,
                   mpJob, mpProcessed, mpErrors, mpPanic, mpEmitted>>

\* m := <-metrics  (lines 428-431)
MpMainMetrics ==
    /\ ~mpPanic
    /\ mpMain = "metrics"
    /\ mpMetrics # <<>>
    /\ mpMetrics' = Tail(mpMetrics)
    /\ mpI' = mpI + 1
    /\ mpMain' = IF mpI = numWorkersMetrics THEN "done" ELSE "metrics"
    /\ UNCHANGED <<mpJobs, mpJobsClosed, mpResults, mpResultsClosed, mpPc,
                   mpJob, mpProcessed, mpErrors, mpPanic, mpEmitted>>

\* every worker of the metrics pool has left its job loop without a panic
MpWorkersFinished ==
    /\ ~mpPanic
    /\ \A w \in MpWorkers : mpPc[w] \in {"metrics", "done"}

\* C2: every job sent to a worker pool gets exactly one result on the results
\* channel: never two, and, once the workers have drained the closed job
\* channel, never none (jobs whose processing fails included).
C2_ExactlyOneResult ==
    /\ \A j \in MpJobIds : mpEmitted[j] <= 1
    /\ MpWorkersFinished => \A j \in MpJobIds : mpEmitted[j] = 1

(***************************************************************************)
(* FanOutWithWorkerPool (env.go:480-529), the shape FanOutBasic            *)
(* (env.go:256-326) shares: the lane goroutines compete for the values of  *)
(* one input channel, each lane forwards what it took to its own output    *)
(* channel and closes it when the input is closed and drained; one         *)
(* collector per lane drains that output.                                  *)
(***************************************************************************)
VARIABLES
    foInput,        \* buffered channel input
    foInputClosed,  \* close(input) has run
    foOutputs,      \* lane -> its buffered channel outputs[workerID]
    foOutClosed,    \* lane -> close(outputs[workerID]) has run
    foPc,           \* lane -> "range", "send", "done"
    foData,         \* lane -> the value it holds (0: none)
    foJ,            \* the producer's loop variable j
    foHandled,      \* history: lane -> the values it took from input, in order
    foCollected,    \* collector of a lane -> results it has received so far
    foCollPc,       \* collector of a lane -> "range", "done" (wg.Done called)
    foMain          \* main: "wait" at wg.Wait, "done" after it

foVars == <<foInput, foInputClosed, foOutputs, foOutClosed, foPc, foData, foJ,
            foHandled, foCollected, foCollPc, foMain>>

numLanes == 3
\* the example sends 9 jobs (env.go:484); the model runs it with fewer
numJobsFanOut == 5
outputCap == 3

Lanes == 0..(numLanes - 1)
FoJobIds == 1..numJobsFanOut

InitFanOut ==
    /\ foInput = <<>>
    /\ foInputClosed = FALSE
    /\ foOutputs = [w \in Lanes |-> <<>>]
    /\ foOutClosed = [w \in Lanes |-> FALSE]
    /\ foPc = [w \in Lanes |-> "range"]
    /\ foData = [w \in Lanes |-> 0]
    /\ foJ = 1
    /\ foHandled = [w \in Lanes |-> <<>>]
    /\ foCollected = [w \in Lanes |-> <<>>]
    /\ foCollPc = [w \in Lanes |-> "range"]
    /\ foMain = "wait"

\* a receive that leaves the value in the channel for the next lane
FoAfterRecvKept(ch) == ch

\* what the receive of `for data := range input` leaves in the channel
FoAfterRecv(ch) == Tail(ch)

\* input <- j  (env.go:509-511)
FoProducerSend ==
    /\ foJ <= numJobsFanOut
    /\ Len(foInput) < numJobsFanOut
    /\ foInput' = Append(foInput, foJ)
    /\ foJ' = foJ + 1
    /\ UNCHANGED <<foInputClosed, foOutputs, foOutClosed, foPc, foData,
                   foHandled, foCollected, foCollPc, foMain>>

\* close(input)  (env.go:512)
FoProducerClose ==
    /\ foJ = numJobsFanOut + 1
    /\ ~foInputClosed
    /\ foInputClosed' = TRUE
    /\ UNCHANGED <<foInput, foOutputs, foOutClosed, foPc, foData, foJ,
                   foHandled, foCollected, foCollPc, foMain>>

\* for data := range input: lane w receives a value  (env.go:498)
FoLaneRecv(w) ==
    /\ foPc[w] = "range"
    /\ foInput # <<>>
    /\ foData' = [foData EXCEPT ![w] = Head(foInput)]
    /\ foHandled' = [foHandled EXCEPT ![w] = Append(@, Head(foInput))]
    /\ foInput' = FoAfterRecv(foInput)
    /\ foPc' = [foPc EXCEPT ![w] = "send"]
    /\ UNCHANGED <<foInputClosed, foOutputs, foOutClosed, foJ,
                   foCollected, foCollPc, foMain>>

\* outputs[workerID] <- data * (workerID + 1)  (env.go:501)
FoLaneSend(w) ==
    /\ foPc[w] = "send"
    /\ Len(foOutputs[w]) < outputCap
    /\ foOutputs' = [foOutputs EXCEPT ![w] = Append(@, foData[w] * (w + 1))]
    /\ foData' = [foData EXCEPT ![w] = 0]
    /\ foPc' = [foPc EXCEPT ![w] = "range"]
    /\ UNCHANGED <<foInput, foInputClosed, foOutClosed, foJ,
                   foHandled, foCollected, foCollPc, foMain>>

\* the range loop ends, close(outputs[workerID])  (env.go:498-503)
FoLaneClose(w) ==
    /\ foPc[w] = "range"
    /\ foInput = <<>>
    /\ foInputClosed
    /\ foOutClosed' = [foOutClosed EXCEPT ![w] = TRUE]
    /\ foPc' = [foPc EXCEPT ![w] = "done"]
    /\ UNCHANGED <<foInput, foInputClosed, foOutputs, foData, foJ,
                   foHandled, foCollected, foCollPc, foMain>>

\* for result := range ch: the collector of lane w receives  (env.go:522)
FoCollect(w) ==
    /\ foCollPc[w] = "range"
    /\ foOutputs[w] # <<>>
    /\ foCollected' = [foCollected EXCEPT ![w] = Append(@, Head(foOutputs[w]))]
    /\ foOutputs' = [foOutputs EXCEPT ![w] = Tail(@)]
    /\ UNCHANGED <<foInput, foInputClosed, foOutClosed, foPc, foData, foJ,
                   foHandled, foCollPc, foMain>>

\* the collector's range loop ends and its deferred wg.Done() runs
\* (env.go:521-524)
FoCollectEnd(w) ==
    /\ foCollPc[w] = "range"
    /\ foOutputs[w] = <<>>
    /\ foOutClosed[w]
    /\ foCollPc' = [foCollPc EXCEPT ![w] = "done"]
    /\ UNCHANGED <<foInput, foInputClosed, foOutputs, foOutClosed, foPc, foData,
                   foJ, foHandled, foCollected, foMain>>

\* wg.Wait() returns  (env.go:528)
FoWait ==
    /\ foMain = "wait"
    /\ \A w \in Lanes : foCollPc[w] = "done"
    /\ foMain' = "done"
    /\ UNCHANGED <<foInput, foInputClosed, foOutputs, foOutClosed, foPc, foData,
                   foJ, foHandled, foCollected, foCollPc>>

\* how many times job j was taken, over all lanes
FoTimesHandled(j) == SumOver([w \in Lanes |-> Count(foHandled[w], j)], Lanes)

\* the input has been closed and every value sent on it has been received
FoInputDrained == foInputClosed /\ foInput = <<>>

\* C3: in fan-out over N lanes every input job is consumed by exactly one
\* lane: no job is ever taken twice, a job is either still in the input or
\* taken by one lane, and once the input is closed and drained each of the M
\* jobs has been handled exactly once across the lanes.
C3_FanOutExactlyOnce ==
    /\ \A j \in FoJobIds : FoTimesHandled(j) + Count(foInput, j) = (IF j < foJ THEN 1 ELSE 0)
    /\ FoInputDrained => \A j \in FoJobIds : FoTimesHandled(j) = 1

\* the input is drained, the jobs went to more than one lane, main is done
C3_Witness ==
    /\ FoInputDrained
    /\ foMain = "done"
    /\ Cardinality({w \in Lanes : foHandled[w] # <<>>}) >= 2

(***************************************************************************)
(* WorkerPoolWithPriority (part_012:239-311).                              *)
(* Each worker polls the high lane first and falls to the low lane (or a   *)
(* 50ms timeout) only through the `default` branch.  The channel variables *)
(* highPriorityJobs and lowPriorityJobs are captured by every worker and   *)
(* set to nil without synchronisation: a worker sees its own assignment    *)
(* and may or may not see the other worker's.                              *)
(***************************************************************************)
VARIABLES
    ppHigh,         \* buffered channel highPriorityJobs
    ppHighClosed,   \* close(highPriorityJobs) has run
    ppLow,          \* buffered channel lowPriorityJobs
    ppLowClosed,    \* close(lowPriorityJobs) has run
    ppHighNil,      \* the workers that have assigned highPriorityJobs = nil
    ppLowNil,       \* the workers that have assigned lowPriorityJobs = nil
    ppResults,      \* buffered channel results
    ppResultsClosed,\* close(results) has run
    ppPc,           \* worker -> "outer", "inner", "send", "check", "done"
    ppJob,          \* worker -> the job it holds, <<lane, id>> (<<>>: none)
    ppHighI,        \* loop variable i of the high-priority producer
    ppLowI,         \* loop variable i of the low-priority producer
    ppMain,         \* main: "sleep", "collect", "done"
    ppPanic,        \* a goroutine panicked: the program is gone
    ppHighSinceLowHead \* history: high-priority jobs taken since the job now
                       \* at the head of the low lane got there

ppVars == <<ppHigh, ppHighClosed, ppLow, ppLowClosed, ppHighNil, ppLowNil,
            ppResults, ppResultsClosed, ppPc, ppJob, ppHighI, ppLowI, ppMain,
            ppPanic, ppHighSinceLowHead>>

numWorkersPriority == 2
numHighJobs == 3
firstLowJob == 4
lastLowJob == 6
laneCap == 5
resultsCapPriority == 10

PpWorkers == 1..numWorkersPriority

InitPriority ==
    /\ ppHigh = <<>>
    /\ ppHighClosed = FALSE
    /\ ppLow = <<>>
    /\ ppLowClosed = FALSE
    /\ ppHighNil = {}
    /\ ppLowNil = {}
    /\ ppResults = <<>>
    /\ ppResultsClosed = FALSE
    /\ ppPc = [w \in PpWorkers |-> "outer"]
    /\ ppJob = [w \in PpWorkers |-> <<>>]
    /\ ppHighI = 1
    /\ ppLowI = firstLowJob
    /\ ppMain = "sleep"
    /\ ppPanic = FALSE
    /\ ppHighSinceLowHead = 0

\* what worker w can read from a captured channel variable that the workers
\* in nilBy have set to nil: TRUE stands for nil
PpReadsNil(w, nilBy) ==
    IF w \in nilBy THEN {TRUE}
    ELSE IF nilBy # {} THEN {TRUE, FALSE}
    ELSE {FALSE}

\* case job, ok := <-highPriorityJobs with ok  (lines 258, 261-265)
PpTakeHigh(w) ==
    /\ ~ppPanic
    /\ ppPc[w] = "outer"
    /\ FALSE \in PpReadsNil(w, ppHighNil)
    /\ ppHigh # <<>>
    /\ ppJob' = [ppJob EXCEPT ![w] = <<"HIGH", Head(ppHigh)>>]
    /\ ppHigh' = Tail(ppHigh)
    /\ ppHighSinceLowHead' = IF ppLow # <<>> THEN ppHighSinceLowHead + 1 ELSE 0
    /\ ppPc' = [ppPc EXCEPT ![w] = "send"]
    /\ UNCHANGED <<ppHighClosed, ppLow, ppLowClosed, ppHighNil, ppLowNil,
                   ppResults, ppResultsClosed, ppHighI, ppLowI, ppMain, ppPanic>>

\* case job, ok := <-highPriorityJobs with !ok: highPriorityJobs = nil
\* (lines 258-260)
PpHighEnded(w) ==
    /\ ~ppPanic
    /\ ppPc[w] = "outer"
    /\ FALSE \in PpReadsNil(w, ppHighNil)
    /\ ppHigh = <<>>
    /\ ppHighClosed
    /\ ppHighNil' = ppHighNil \cup {w}
    /\ ppPc' = [ppPc EXCEPT ![w] = "check"]
    /\ UNCHANGED <<ppHigh, ppHighClosed, ppLow, ppLowClosed, ppLowNil, ppResults,
                   ppResultsClosed, ppJob, ppHighI, ppLowI, ppMain, ppPanic,
                   ppHighSinceLowHead>>

\* default: the high lane has nothing ready (it is nil, or open and empty)
\* (line 266)
PpDefault(w) ==
    /\ ~ppPanic
    /\ ppPc[w] = "outer"
    /\ \/ TRUE \in PpReadsNil(w, ppHighNil)
       \/ ppHigh = <<>> /\ ~ppHighClosed
    /\ ppPc' = [ppPc EXCEPT ![w] = "inner"]
    /\ UNCHANGED <<ppHigh, ppHighClosed, ppLow, ppLowClosed, ppHighNil, ppLowNil,
                   ppResults, ppResultsClosed, ppJob, ppHighI, ppLowI, ppMain,
                   ppPanic, ppHighSinceLowHead>>

\* case job, ok := <-lowPriorityJobs with ok  (lines 268, 271-275)
PpTakeLow(w) ==
    /\ ~ppPanic
    /\ ppPc[w] = "inner"
    /\ FALSE \in PpReadsNil(w, ppLowNil)
    /\ ppLow # <<>>
    /\ ppJob' = [ppJob EXCEPT ![w] = <<"LOW", Head(ppLow)>>]
    /\ ppLow' = Tail(ppLow)
    /\ ppHighSinceLowHead' = 0
    /\ ppPc' = [ppPc EXCEPT ![w] = "send"]
    /\ UNCHANGED <<ppHigh, ppHighClosed, ppLowClosed, ppHighNil, ppLowNil,
                   ppResults, ppResultsClosed, ppHighI, ppLowI, ppMain, ppPanic>>

\* case job, ok := <-lowPriorityJobs with !ok: lowPriorityJobs = nil
\* (lines 268-270)
PpLowEnded(w) ==
    /\ ~ppPanic
    /\ ppPc[w] = "inner"
    /\ FALSE \in PpReadsNil(w, ppLowNil)
    /\ ppLow = <<>>
    /\ ppLowClosed
    /\ ppLowNil' = ppLowNil \cup {w}
    /\ ppPc' = [ppPc EXCEPT ![w] = "check"]
    /\ UNCHANGED <<ppHigh, ppHighClosed, ppLow, ppLowClosed, ppHighNil, ppResults,
                   ppResultsClosed, ppJob, ppHighI, ppLowI, ppMain, ppPanic,
                   ppHighSinceLowHead>>

\* case <-time.After(50 * time.Millisecond)  (lines 276-278)
PpTimeout(w) ==
    /\ ~ppPanic
    /\ ppPc[w] = "inner"
    /\ ppPc' = [ppPc EXCEPT ![w] = "check"]
    /\ UNCHANGED <<ppHigh, ppHighClosed, ppLow, ppLowClosed, ppHighNil, ppLowNil,
                   ppResults, ppResultsClosed, ppJob, ppHighI, ppLowI, ppMain,
                   ppPanic, ppHighSinceLowHead>>

\* results <- fmt.Sprintf(...)  (lines 264, 274); on the closed channel the
\* send panics
PpSend(w) ==
    /\ ~ppPanic
    /\ ppPc[w] = "send"
    /\ IF ppResultsClosed
          THEN /\ ppPanic' = TRUE
               /\ UNCHANGED <<ppResults, ppJob, ppPc>>
          ELSE /\ Len(ppResults) < resultsCapPriority
               /\ ppResults' = Append(ppResults, ppJob[w])
               /\ ppJob' = [ppJob EXCEPT ![w] = <<>>]
               /\ ppPc' = [ppPc EXCEPT ![w] = "check"]
               /\ UNCHANGED ppPanic
    /\ UNCHANGED <<ppHigh, ppHighClosed, ppLow, ppLowClosed, ppHighNil, ppLowNil,
                   ppResultsClosed, ppHighI, ppLowI, ppMain, ppHighSinceLowHead>>

\* if highPriorityJobs == nil && lowPriorityJobs == nil { return }
\* (lines 282-284)
PpCheck(w) ==
    /\ ~ppPanic
    /\ ppPc[w] = "check"
    /\ \E h \in PpReadsNil(w, ppHighNil), l \in PpReadsNil(w, ppLowNil) :
          ppPc' = [ppPc EXCEPT ![w] = IF h /\ l THEN "done" ELSE "outer"]
    /\ UNCHANGED <<ppHigh, ppHighClosed, ppLow, ppLowClosed, ppHighNil, ppLowNil,
                   ppResults, ppResultsClosed, ppJob, ppHighI, ppLowI, ppMain,
                   ppPanic, ppHighSinceLowHead>>

\* highPriorityJobs <- PriorityJob{ID: i, ...}  (lines 291-293)
PpHighSend ==
    /\ ~ppPanic
    /\ ppHighI <= numHighJobs
    /\ Len(ppHigh) < laneCap
    /\ ppHigh' = Append(ppHigh, ppHighI)
    /\ ppHighI' = ppHighI + 1
    /\ UNCHANGED <<ppHighClosed, ppLow, ppLowClosed, ppHighNil, ppLowNil, ppResults,
                   ppResultsClosed, ppPc, ppJob, ppLowI, ppMain, ppPanic,
                   ppHighSinceLowHead>>

\* close(highPriorityJobs)  (line 294)
PpHighClose ==
    /\ ~ppPanic
    /\ ppHighI = numHighJobs + 1
    /\ ~ppHighClosed
    /\ ppHighClosed' = TRUE
    /\ UNCHANGED <<ppHigh, ppLow, ppLowClosed, ppHighNil, ppLowNil, ppResults,
                   ppResultsClosed, ppPc, ppJob, ppHighI, ppLowI, ppMain, ppPanic,
                   ppHighSinceLowHead>>

\* lowPriorityJobs <- PriorityJob{ID: i, ...}  (lines 298-300)
PpLowSend ==
    /\ ~ppPanic
    /\ ppLowI <= lastLowJob
    /\ Len(ppLow) < laneCap
    /\ ppLow' = Append(ppLow, ppLowI)
    /\ ppLowI' = ppLowI + 1
    /\ UNCHANGED <<ppHigh, ppHighClosed, ppLowClosed, ppHighNil, ppLowNil, ppResults,
                   ppResultsClosed, ppPc, ppJob, ppHighI, ppMain, ppPanic,
                   ppHighSinceLowHead>>

\* close(lowPriorityJobs)  (line 301)
PpLowClose ==
    /\ ~ppPanic
    /\ ppLowI = lastLowJob + 1
    /\ ~ppLowClosed
    /\ ppLowClosed' = TRUE
    /\ UNCHANGED <<ppHigh, ppHighClosed, ppLow, ppHighNil, ppLowNil, ppResults,
                   ppResultsClosed, ppPc, ppJob, ppHighI, ppLowI, ppMain, ppPanic,
                   ppHighSinceLowHead>>

\* time.Sleep(1 * time.Second); close(results)  (lines 305-306)
PpMainClose ==
    /\ ~ppPanic
    /\ ppMain = "sleep"
    /\ ppResultsClosed' = TRUE
    /\ ppMain' = "collect"
    /\ UNCHANGED <<ppHigh, ppHighClosed, ppLow, ppLowClosed, ppHighNil, ppLowNil,
                   ppResults, ppPc, ppJob, ppHighI, ppLowI, ppPanic,
                   ppHighSinceLowHead>>

\* for result := range results  (lines 308-310)
PpMainCollect ==
    /\ ~ppPanic
    /\ ppMain = "collect"
    /\ IF ppResults # <<>>
          THEN ppResults' = Tail(ppResults) /\ UNCHANGED ppMain
          ELSE ppMain' = "done" /\ UNCHANGED ppResults
    /\ UNCHANGED <<ppHigh, ppHighClosed, ppLow, ppLowClosed, ppHighNil, ppLowNil,
                   ppResultsClosed, ppPc, ppJob, ppHighI, ppLowI, ppPanic,
                   ppHighSinceLowHead>>

\* the largest starvation ceiling that could bind in this example: one less
\* than the number of high-priority jobs it sends
starvationCeilingK == numHighJobs - 1

\* C4: a low-priority job at the head of its lane is served after at most K
\* further high-priority jobs have been served (the fairness bound of the
\* two-lane priority dispatch).
C4_LowWaitsAtMostK == ppHighSinceLowHead <= starvationCeilingK

(***************************************************************************)
(* WorkerPoolWithBatching (part_012:314-359).                              *)
(* main sends the jobs, closes jobs and then receives three batches; each  *)
(* worker appends the jobs it receives to its own batch, sends the batch   *)
(* when it holds batchSize jobs and sends what is left when jobs is closed *)
(* and drained.                                                            *)
(***************************************************************************)
VARIABLES
    bpJobs,        \* buffered channel jobs
    bpJobsClosed,  \* close(jobs) has run
    bpResults,     \* buffered channel results: the batches waiting in it
    bpBatch,       \* worker -> its slice batch
    bpPc,          \* worker -> "range", "emit", "final", "done"
    bpMain,        \* main: "send", "collect", "done"
    bpI,           \* main's loop variable (j, then r)
    bpEmitted      \* history: the batches sent on results, in order, each
                   \* with its worker and whether it was the final one

bpVars == <<bpJobs, bpJobsClosed, bpResults, bpBatch, bpPc, bpMain, bpI,
            bpEmitted>>

numWorkersBatch == 2
batchSize == 3
numJobsBatch == 7
numBatchReads == 3
chanCapBatch == 10

BpWorkers == 1..numWorkersBatch
BpJobIds == 1..numJobsBatch

InitBatch ==
    /\ bpJobs = <<>>
    /\ bpJobsClosed = FALSE
    /\ bpResults = <<>>
    /\ bpBatch = [w \in BpWorkers |-> <<>>]
    /\ bpPc = [w \in BpWorkers |-> "range"]
    /\ bpMain = "send"
    /\ bpI = 1
    /\ bpEmitted = <<>>

\* a worker that keeps filling the slice it has just sent
BpFreshBatchKept(batch) == batch

\* batch = make([]int, 0, batchSize): the slice after a batch was sent
\* (line 335)
BpFreshBatch(batch) == <<>>

\* a worker that sends what is left even when nothing is left
BpHasRemainderAlways(batch) == TRUE

\* if len(batch) > 0  (line 340)
BpHasRemainder(batch) == Len(batch) > 0

\* if len(batch) == batchSize  (line 331)
BpIsFull(batch) == Len(batch) = batchSize

\* for job := range jobs { batch = append(batch, job); if len(batch) ==
\* batchSize ...  (lines 328-331)
BpWorkerRecv(w) ==
    /\ bpPc[w] = "range"
    /\ bpJobs # <<>>
    /\ bpBatch' = [bpBatch EXCEPT ![w] = Append(@, Head(bpJobs))]
    /\ bpJobs' = Tail(bpJobs)
    /\ bpPc' = [bpPc EXCEPT ![w] = IF BpIsFull(bpBatch'[w]) THEN "emit" ELSE "range"]
    /\ UNCHANGED <<bpJobsClosed, bpResults, bpMain, bpI, bpEmitted>>

\* results <- batch; batch = make([]int, 0, batchSize)  (lines 334-335)
BpWorkerEmit(w) ==
    /\ bpPc[w] = "emit"
    /\ Len(bpResults) < chanCapBatch
    /\ bpResults' = Append(bpResults, bpBatch[w])
    /\ bpEmitted' = Append(bpEmitted, [worker |-> w, batch |-> bpBatch[w],
                                       final |-> FALSE])
    /\ bpBatch' = [bpBatch EXCEPT ![w] = BpFreshBatch(@)]
    /\ bpPc' = [bpPc EXCEPT ![w] = "range"]
    /\ UNCHANGED <<bpJobs, bpJobsClosed, bpMain, bpI>>

\* the range loop ends; if len(batch) > 0 the remainder is to be sent
\* (lines 328, 340)
BpWorkerRangeEnd(w) ==
    /\ bpPc[w] = "range"
    /\ bpJobs = <<>>
    /\ bpJobsClosed
    /\ bpPc' = [bpPc EXCEPT ![w] = IF BpHasRemainder(bpBatch[w]) THEN "final" ELSE "done"]
    /\ UNCHANGED <<bpJobs, bpJobsClosed, bpResults, bpBatch, bpMain, bpI, bpEmitted>>

\* results <- batch for the remaining items  (line 343)
BpWorkerFinal(w) ==
    /\ bpPc[w] = "final"
    /\ Len(bpResults) < chanCapBatch
    /\ bpResults' = Append(bpResults, bpBatch[w])
    /\ bpEmitted' = Append(bpEmitted, [worker |-> w, batch |-> bpBatch[w],
                                       final |-> TRUE])
    /\ bpPc' = [bpPc EXCEPT ![w] = "done"]
    /\ UNCHANGED <<bpJobs, bpJobsClosed, bpBatch, bpMain, bpI>>

\* jobs <- j  (lines 349-351)
BpMainSend ==
    /\ bpMain = "send"
    /\ bpI <= numJobsBatch
    /\ Len(bpJobs) < chanCapBatch
    /\ bpJobs' = Append(bpJobs, bpI)
    /\ bpI' = bpI + 1
    /\ UNCHANGED <<bpJobsClosed, bpResults, bpBatch, bpPc, bpMain, bpEmitted>>

\* close(jobs)  (line 352)
BpMainClose ==
    /\ bpMain = "send"
    /\ bpI > numJobsBatch
    /\ bpJobsClosed' = TRUE
    /\ bpMain' = "collect"
    /\ bpI' = 1
    /\ UNCHANGED <<bpJobs, bpResults, bpBatch, bpPc, bpEmitted>>

\* batch := <-results, three times  (lines 355-358)
BpMainCollect ==
    /\ bpMain = "collect"
    /\ bpResults # <<>>
    /\ bpResults' = Tail(bpResults)
    /\ bpI' = bpI + 1
    /\ bpMain' = IF bpI = numBatchReads THEN "done" ELSE "collect"
    /\ UNCHANGED <<bpJobs, bpJobsClosed, bpBatch, bpPc, bpEmitted>>

\* how many times job j occurs in the batches sent so far
BpTimesEmitted(j) ==
    SumOver([i \in 1..Len(bpEmitted) |-> Count(bpEmitted[i].batch, j)],
            1..Len(bpEmitted))

\* C5: every batch the batching worker emits has a size in (0, batchSize];
\* a batch is emitted exactly when it reaches batchSize or, non-empty, once
\* per worker when the input is closed and drained; no empty batch is
\* emitted and no accumulated job is emitted in two batches.
C5_BatchSizeAndOnce ==
    /\ \A i \in 1..Len(bpEmitted) :
          /\ Len(bpEmitted[i].batch) \in 1..batchSize
          /\ bpEmitted[i].final \/ Len(bpEmitted[i].batch) = batchSize
          /\ bpEmitted[i].final => bpJobsClosed
    /\ \A i, k \in 1..Len(bpEmitted) :
          (i # k /\ bpEmitted[i].final /\ bpEmitted[k].final)
             => bpEmitted[i].worker # bpEmitted[k].worker
    /\ \A w \in BpWorkers :
          /\ bpPc[w] = "range" => Len(bpBatch[w]) < batchSize
          /\ bpPc[w] = "emit" => Len(bpBatch[w]) = batchSize
    /\ \A j \in BpJobIds :
          BpTimesEmitted(j) + SumOver([w \in BpWorkers |->
                IF bpPc[w] = "done" THEN 0 ELSE Count(bpBatch[w], j)], BpWorkers)
             + Count(bpJobs, j) = (IF j < bpI \/ bpMain # "send" THEN 1 ELSE 0)

\* both workers are done, a full batch and a final partial batch were sent
C5_Witness ==
    /\ \A w \in BpWorkers : bpPc[w] = "done"
    /\ \E i \in 1..Len(bpEmitted) : ~bpEmitted[i].final
    /\ \E i \in 1..Len(bpEmitted) :
          bpEmitted[i].final /\ Len(bpEmitted[i].batch) < batchSize

(***************************************************************************)
(* The cancellation contexts of context.go: context.WithCancel,            *)
(* context.WithTimeout / WithDeadline, the cancel functions they return,   *)
(* Done() and Err(), as ContextWithCancellation (context.go:88-116) and    *)
(* ContextWithNestedCancellation (context.go:142-170) use them.  Token 0   *)
(* is context.Background(), which is never cancelled.  A derived token is  *)
(* registered with its parent while the parent is live; cancelling a token *)
(* sets its error, closes its Done channel and cancels the tokens          *)
(* registered with it.  A token with a deadline owns a timer that cancels  *)
(* it with DeadlineExceeded at or after the deadline.                      *)
(***************************************************************************)
VARIABLES
    ctxParent,    \* token -> the token it was derived from (-1: not created)
    ctxChildren,  \* token -> the live tokens registered with it
    ctxErr,       \* token -> what Err() returns: "nil", "Canceled",
                  \*          "DeadlineExceeded"
    ctxDone,      \* token -> its Done channel is closed
    ctxTimer,     \* token -> the deadline of its own timer (0: no timer)
    ctxNow        \* the clock

ctxVars == <<ctxParent, ctxChildren, ctxErr, ctxDone, ctxTimer, ctxNow>>

MaxTokens == 3
MaxTime == 2

Background == 0
Tokens == 1..MaxTokens
CtxCreated == {t \in Tokens : ctxParent[t] # -1}

InitContext ==
    /\ ctxParent = [t \in Tokens |-> -1]
    /\ ctxChildren = [t \in Tokens |-> {}]
    /\ ctxErr = [t \in Tokens |-> "nil"]
    /\ ctxDone = [t \in Tokens |-> FALSE]
    /\ ctxTimer = [t \in Tokens |-> 0]
    /\ ctxNow = 0

\* ctx.Err() and (the state of) ctx.Done()
CtxErrOf(t) == IF t = Background THEN "nil" ELSE ctxErr[t]
CtxDoneOf(t) == IF t = Background THEN FALSE ELSE ctxDone[t]

\* the tokens a token was derived from, nearest first, Background excluded
RECURSIVE CtxAncestors(_)
CtxAncestors(t) ==
    IF t = Background \/ ctxParent[t] \in {-1, Background} THEN {}
    ELSE {ctxParent[t]} \cup CtxAncestors(ctxParent[t])

\* ctx.Deadline(): the earliest timer among the token and its ancestors
\* (0: none)
CtxDeadlineOf(t) ==
    LET ds == {ctxTimer[a] : a \in ({t} \cup CtxAncestors(t)) \ {Background}} \ {0}
    IN  IF ds = {} THEN 0 ELSE CHOOSE d \in ds : \A e \in ds : d <= e

\* the live tokens reached from t through the registrations
RECURSIVE CtxRegisteredBelow(_)
CtxRegisteredBelow(t) ==
    ctxChildren[t] \cup UNION {CtxRegisteredBelow(c) : c \in ctxChildren[t]}

\* a cancel that stops at the token itself
CtxCancelledByOnlySelf(t) == {t}

\* the tokens one cancel of t cancels: t and everything registered below it
CtxCancelledBy(t) == {t} \cup CtxRegisteredBelow(t)

\* cancel(removeFromParent = true, err) on the live token t
CtxDoCancel(t, err) ==
    LET hit == CtxCancelledBy(t) IN
    /\ ctxErr' = [x \in Tokens |-> IF x \in hit /\ ctxErr[x] = "nil" THEN err ELSE ctxErr[x]]
    /\ ctxDone' = [x \in Tokens |-> ctxDone[x] \/ x \in hit]
    /\ ctxChildren' = [x \in Tokens |-> IF x \in hit THEN {} ELSE ctxChildren[x] \ {t}]

\* a derivation under a done parent that always reports Canceled
CtxDeriveAlwaysCanceled(id, p, timer) ==
    /\ ctxParent' = [ctxParent EXCEPT ![id] = p]
    /\ ctxTimer' = [ctxTimer EXCEPT ![id] = timer]
    /\ IF CtxErrOf(p) # "nil"
          THEN /\ ctxErr' = [ctxErr EXCEPT ![id] = "Canceled"]
               /\ ctxDone' = [ctxDone EXCEPT ![id] = TRUE]
               /\ UNCHANGED ctxChildren
          ELSE /\ ctxChildren' = IF p = Background THEN ctxChildren
                                 ELSE [ctxChildren EXCEPT ![p] = @ \cup {id}]
               /\ UNCHANGED <<ctxErr, ctxDone>>

\* the new token id is derived from parent p: it is cancelled at once when p
\* is already done, and registered with p otherwise
CtxDerive(id, p, timer) ==
    /\ ctxParent' = [ctxParent EXCEPT ![id] = p]
    /\ ctxTimer' = [ctxTimer EXCEPT ![id] = timer]
    /\ IF CtxErrOf(p) # "nil"
          THEN /\ ctxErr' = [ctxErr EXCEPT ![id] = CtxErrOf(p)]
               /\ ctxDone' = [ctxDone EXCEPT ![id] = TRUE]
               /\ UNCHANGED ctxChildren
          ELSE /\ ctxChildren' = IF p = Background THEN ctxChildren
                                 ELSE [ctxChildren EXCEPT ![p] = @ \cup {id}]
               /\ UNCHANGED <<ctxErr, ctxDone>>

\* ctx, cancel := context.WithCancel(parent)  (context.go:91, 146)
CtxWithCancel(id, p) ==
    /\ ctxParent[id] = -1
    /\ \A t \in Tokens : t < id => ctxParent[t] # -1
    /\ p \in CtxCreated \cup {Background}
    /\ CtxDerive(id, p, 0)
    /\ UNCHANGED ctxNow

\* ctx, cancel := context.WithTimeout(parent, dur)  (context.go:150): a
\* parent whose deadline is not later makes it a plain WithCancel
CtxWithTimeout(id, p, dur) ==
    /\ ctxParent[id] = -1
    /\ \A t \in Tokens : t < id => ctxParent[t] # -1
    /\ p \in CtxCreated \cup {Background}
    /\ LET d == ctxNow + dur
           pd == CtxDeadlineOf(p)
       IN  CtxDerive(id, p, IF pd # 0 /\ pd <= d THEN 0 ELSE d)
    /\ UNCHANGED ctxNow

\* cancel(): the CancelFunc of token t is called  (context.go:112, 147, 151)
CtxCancel(t) ==
    /\ t \in CtxCreated
    /\ ctxErr[t] = "nil"
    /\ CtxDoCancel(t, "Canceled")
    /\ UNCHANGED <<ctxParent, ctxTimer, ctxNow>>

\* the timer of token t fires at or after its deadline
CtxTimerFire(t) ==
    /\ t \in CtxCreated
    /\ ctxTimer[t] # 0
    /\ ctxNow >= ctxTimer[t]
    /\ ctxErr[t] = "nil"
    /\ CtxDoCancel(t, "DeadlineExceeded")
    /\ UNCHANGED <<ctxParent, ctxTimer, ctxNow>>

\* time passes
CtxTick ==
    /\ ctxNow < MaxTime
    /\ ctxNow' = ctxNow + 1
    /\ UNCHANGED <<ctxParent, ctxChildren, ctxErr, ctxDone, ctxTimer>>

\* C6: whenever a token has been cancelled, every token derived from it,
\* directly or transitively, with or without a deadline of its own, derived
\* before or after the cancel, reports a non-nil Err() and a fired Done.
C6_CancelReachesDescendants ==
    \A t \in CtxCreated :
       /\ \A a \in CtxAncestors(t) :
             CtxErrOf(a) # "nil" => (CtxErrOf(t) # "nil" /\ CtxDoneOf(t))
       /\ CtxDoneOf(t) <=> CtxErrOf(t) # "nil"

\* a chain of three tokens, the last with a timer that has not fired, all
\* cancelled through the explicit cancel of the first
C6_Witness ==
    \E a, b, c \in CtxCreated :
       /\ ctxParent[b] = a /\ ctxParent[c] = b
       /\ ctxTimer[c] # 0 /\ ctxNow < ctxTimer[c]
       /\ CtxErrOf(a) = "Canceled" /\ CtxErrOf(c) = "Canceled"

(***************************************************************************)
(* Fan-in (env.go).  fiMode chooses the example that runs:                 *)
(*   "wg"      FanInBasic (env.go:329-402), the shape of aggregate in      *)
(*             FanOutFanInPipeline (env.go:436-457): one forwarder         *)
(*             goroutine per input lane, and a goroutine that closes the   *)
(*             output after wg.Wait()                                      *)
(*   "select"  FanInWithSelect (env.go:532-602): one goroutine selecting   *)
(*             over the lanes, setting a closed lane's variable to nil and *)
(*             closing the output (deferred) when all are nil              *)
(* Producers fill and close the lanes; main ranges over the output.        *)
(***************************************************************************)
VARIABLES
    fiMode,       \* "wg" or "select"
    fiInputs,     \* lane -> its buffered channel
    fiInClosed,   \* lane -> close(input) has run
    fiNext,       \* lane -> items its producer has sent so far
    fiOutput,     \* buffered channel output
    fiOutCloses,  \* how many times close(output) has run
    fiPc,         \* "wg": lane -> "range", "send", "done" of its forwarder
                  \* "select": every lane holds the position of the single
                  \*           goroutine: "select", "send", "done"
    fiData,       \* lane -> the item received from it and not yet forwarded
                  \*         (0: none)
    fiNil,        \* "select": lane -> its channel variable was set to nil
    fiWg,         \* "wg": the WaitGroup counter
    fiCollected,  \* the items main has received from output, in order
    fiMain,       \* main: "range", "done"
    fiPanic       \* a send on, or a close of, the closed output panicked

fiVars == <<fiMode, fiInputs, fiInClosed, fiNext, fiOutput, fiOutCloses, fiPc,
            fiData, fiNil, fiWg, fiCollected, fiMain, fiPanic>>

numInputs == 3
\* FanInBasic sends 3 items on each lane (env.go:375-393); the model runs it
\* with fewer
itemsBasic == 1
itemsSelect == 2
inputCapBasic == 3
inputCapSelect == 2
outputCapFanIn == 10

\* the items each producer sends: 3 in FanInBasic (env.go:378), 2 in
\* FanInWithSelect (env.go:581-582)
FiItemsPerLane == IF fiMode = "wg" THEN itemsBasic ELSE itemsSelect

FiLanes == 1..numInputs

\* the k-th item of lane l: 1..3 on input1, 4..6 on input2, ...
FiItem(l, k) == (l - 1) * FiItemsPerLane + k

\* the buffer of an input lane (env.go:333-335, 536-538)
FiInputCap == IF fiMode = "wg" THEN inputCapBasic ELSE inputCapSelect

InitFanIn ==
    /\ fiMode \in {"wg", "select"}
    /\ fiInputs = [l \in FiLanes |-> <<>>]
    /\ fiInClosed = [l \in FiLanes |-> FALSE]
    /\ fiNext = [l \in FiLanes |-> 0]
    /\ fiOutput = <<>>
    /\ fiOutCloses = 0
    /\ fiPc = [l \in FiLanes |-> IF fiMode = "wg" THEN "range" ELSE "select"]
    /\ fiData = [l \in FiLanes |-> 0]
    /\ fiNil = [l \in FiLanes |-> FALSE]
    /\ fiWg = IF fiMode = "wg" THEN numInputs ELSE 0
    /\ fiCollected = <<>>
    /\ fiMain = "range"
    /\ fiPanic = FALSE

\* input <- i  (env.go:378-380, 581-582)
FiProducerSend(l) ==
    /\ ~fiPanic
    /\ fiNext[l] < FiItemsPerLane
    /\ Len(fiInputs[l]) < FiInputCap
    /\ fiInputs' = [fiInputs EXCEPT ![l] = Append(@, FiItem(l, fiNext[l] + 1))]
    /\ fiNext' = [fiNext EXCEPT ![l] = @ + 1]
    /\ UNCHANGED <<fiMode, fiInClosed, fiOutput, fiOutCloses, fiPc, fiData, fiNil,
                   fiWg, fiCollected, fiMain, fiPanic>>

\* close(input)  (env.go:381, 583)
FiProducerClose(l) ==
    /\ ~fiPanic
    /\ fiNext[l] = FiItemsPerLane
    /\ ~fiInClosed[l]
    /\ fiInClosed' = [fiInClosed EXCEPT ![l] = TRUE]
    /\ UNCHANGED <<fiMode, fiInputs, fiNext, fiOutput, fiOutCloses, fiPc, fiData,
                   fiNil, fiWg, fiCollected, fiMain, fiPanic>>

\* a send that puts the item at the head of the output buffer
FiSendOutputFront(item) ==
    IF fiOutCloses > 0
       THEN fiPanic' = TRUE /\ UNCHANGED fiOutput
       ELSE /\ Len(fiOutput) < outputCapFanIn
            /\ fiOutput' = <<item>> \o fiOutput
            /\ UNCHANGED fiPanic

\* output <- data: the new output, or a panic on the closed channel
FiSendOutput(item) ==
    IF fiOutCloses > 0
       THEN fiPanic' = TRUE /\ UNCHANGED fiOutput
       ELSE /\ Len(fiOutput) < outputCapFanIn
            /\ fiOutput' = Append(fiOutput, item)
            /\ UNCHANGED fiPanic

\* close(output): a second close panics
FiCloseOutput ==
    /\ fiOutCloses' = fiOutCloses + 1
    /\ fiPanic' = (fiOutCloses > 0)

\* a Wait that returns while one forwarder is still running
FiWaitReturnsEarly == fiWg <= 1

\* wg.Wait() returns: every forwarder has called wg.Done()  (env.go:372)
FiWaitReturns == fiWg = 0

\* "wg": for data := range input  (env.go:348)
FiForwardRecv(l) ==
    /\ ~fiPanic /\ fiMode = "wg"
    /\ fiPc[l] = "range"
    /\ fiInputs[l] # <<>>
    /\ fiData' = [fiData EXCEPT ![l] = Head(fiInputs[l])]
    /\ fiInputs' = [fiInputs EXCEPT ![l] = Tail(@)]
    /\ fiPc' = [fiPc EXCEPT ![l] = "send"]
    /\ UNCHANGED <<fiMode, fiInClosed, fiNext, fiOutput, fiOutCloses, fiNil, fiWg,
                   fiCollected, fiMain, fiPanic>>

\* "wg": output <- data  (env.go:350)
FiForwardSend(l) ==
    /\ ~fiPanic /\ fiMode = "wg"
    /\ fiPc[l] = "send"
    /\ FiSendOutput(fiData[l])
    /\ fiData' = [fiData EXCEPT ![l] = IF fiPanic' THEN @ ELSE 0]
    /\ fiPc' = [fiPc EXCEPT ![l] = IF fiPanic' THEN @ ELSE "range"]
    /\ UNCHANGED <<fiMode, fiInputs, fiInClosed, fiNext, fiOutCloses, fiNil, fiWg,
                   fiCollected, fiMain>>

\* "wg": the range loop ends and the deferred wg.Done() runs  (env.go:347)
FiForwardDone(l) ==
    /\ ~fiPanic /\ fiMode = "wg"
    /\ fiPc[l] = "range"
    /\ fiInputs[l] = <<>>
    /\ fiInClosed[l]
    /\ fiWg' = fiWg - 1
    /\ fiPc' = [fiPc EXCEPT ![l] = "done"]
    /\ UNCHANGED <<fiMode, fiInputs, fiInClosed, fiNext, fiOutput, fiOutCloses,
                   fiData, fiNil, fiCollected, fiMain, fiPanic>>

\* "wg": wg.Wait(); close(output)  (env.go:372-373)
FiWaitAndClose ==
    /\ ~fiPanic /\ fiMode = "wg"
    /\ fiOutCloses = 0
    /\ FiWaitReturns
    /\ FiCloseOutput
    /\ UNCHANGED <<fiMode, fiInputs, fiInClosed, fiNext, fiOutput, fiPc, fiData,
                   fiNil, fiWg, fiCollected, fiMain>>

\* "select": case data, ok := <-input with ok  (env.go:549, 552-553)
FiSelectRecv(l) ==
    /\ ~fiPanic /\ fiMode = "select"
    /\ \A k \in FiLanes : fiPc[k] = "select"
    /\ ~fiNil[l]
    /\ fiInputs[l] # <<>>
    /\ fiData' = [fiData EXCEPT ![l] = Head(fiInputs[l])]
    /\ fiInputs' = [fiInputs EXCEPT ![l] = Tail(@)]
    /\ fiPc' = [k \in FiLanes |-> "send"]
    /\ UNCHANGED <<fiMode, fiInClosed, fiNext, fiOutput, fiOutCloses, fiNil, fiWg,
                   fiCollected, fiMain, fiPanic>>

\* "select": output <- data  (env.go:554)
FiSelectSend(l) ==
    /\ ~fiPanic /\ fiMode = "select"
    /\ \A k \in FiLanes : fiPc[k] = "send"
    /\ fiData[l] # 0
    /\ FiSendOutput(fiData[l])
    /\ fiData' = [fiData EXCEPT ![l] = IF fiPanic' THEN @ ELSE 0]
    /\ fiPc' = IF fiPanic' THEN fiPc ELSE [k \in FiLanes |-> "select"]
    /\ UNCHANGED <<fiMode, fiInputs, fiInClosed, fiNext, fiOutCloses, fiNil, fiWg,
                   fiCollected, fiMain>>

\* "select": case data, ok := <-input with !ok: input = nil; when every
\* input is nil the goroutine returns and the deferred close(output) runs
\* (env.go:545, 549-551, 573-575)
FiSelectClosed(l) ==
    /\ ~fiPanic /\ fiMode = "select"
    /\ \A k \in FiLanes : fiPc[k] = "select"
    /\ ~fiNil[l]
    /\ fiInputs[l] = <<>>
    /\ fiInClosed[l]
    /\ fiNil' = [fiNil EXCEPT ![l] = TRUE]
    /\ IF \A k \in FiLanes : fiNil'[k]
          THEN /\ FiCloseOutput
               /\ fiPc' = [k \in FiLanes |-> "done"]
          ELSE UNCHANGED <<fiOutCloses, fiPanic, fiPc>>
    /\ UNCHANGED <<fiMode, fiInputs, fiInClosed, fiNext, fiOutput, fiData, fiWg,
                   fiCollected, fiMain>>

\* for result := range output  (env.go:399-401, 599-601)
FiMainCollect ==
    /\ ~fiPanic
    /\ fiMain = "range"
    /\ IF fiOutput # <<>>
          THEN /\ fiCollected' = Append(fiCollected, Head(fiOutput))
               /\ fiOutput' = Tail(fiOutput)
               /\ UNCHANGED fiMain
          ELSE /\ fiOutCloses > 0
               /\ fiMain' = "done"
               /\ UNCHANGED <<fiCollected, fiOutput>>
    /\ UNCHANGED <<fiMode, fiInputs, fiInClosed, fiNext, fiOutCloses, fiPc, fiData,
                   fiNil, fiWg, fiPanic>>

\* every item every lane will ever carry
FiAllItems == {FiItem(l, k) : l \in FiLanes, k \in 1..FiItemsPerLane}

\* the items forwarded to the output so far
FiForwarded == Range(fiCollected) \cup Range(fiOutput)

\* C7: the merged output is closed only after every input lane has been
\* closed and every item received from every lane has been forwarded to it;
\* no forwarder sends on the output after it was closed, and the output is
\* closed exactly once.
C7_OutputClosedLast ==
    /\ fiOutCloses <= 1
    /\ ~fiPanic
    /\ fiOutCloses = 1 =>
          /\ \A l \in FiLanes : fiInClosed[l] /\ fiInputs[l] = <<>> /\ fiData[l] = 0
          /\ FiForwarded = FiAllItems
    /\ fiMain = "done" => fiOutCloses = 1 /\ Range(fiCollected) = FiAllItems

\* main has received everything from the closed output, in an order that
\* interleaves the lanes
C7_Witness ==
    /\ fiMain = "done"
    /\ fiOutCloses = 1
    /\ Len(fiCollected) = numInputs * FiItemsPerLane
    /\ fiCollected[1] # FiItem(1, 1)

(***************************************************************************)
(* WorkerPoolWithErrorHandling (part_012:141-197).                         *)
(* main sends the jobs, closes jobs and receives numJobs results; a worker *)
(* turns a failing job (job.ID%3 == 0) into a Result carrying an Error and *)
(* every other job into a Result carrying a Value, and goes on ranging.    *)
(***************************************************************************)
VARIABLES
    ehJobs,        \* buffered channel jobs (the job IDs)
    ehJobsClosed,  \* close(jobs) has run
    ehResults,     \* buffered channel results: [JobID, Failed] records
    ehPc,          \* worker -> "range", "work", "done"
    ehJob,         \* worker -> the job it holds (0: none)
    ehMain,        \* main: "send", "collect", "done"
    ehI,           \* main's loop variable (j, then r)
    ehCollected,   \* the results main has received, in order
    ehServed       \* history: worker -> the results it has sent, in order

ehVars == <<ehJobs, ehJobsClosed, ehResults, ehPc, ehJob, ehMain, ehI,
            ehCollected, ehServed>>

numWorkersErr == 3
\* the example sends 6 jobs (line 145); the model runs it with fewer
numJobsErr == 4
faultEvery == 3

EhWorkers == 1..numWorkersErr
EhJobIds == 1..numJobsErr

\* the simulated failure: if job.ID%3 == 0  (line 171)
EhJobFails(id) == id % faultEvery = 0

\* the Result a worker builds for a job  (lines 170-175)
EhResultOf(id) == [JobID |-> id, Failed |-> EhJobFails(id)]

\* a worker that a failing job kills
EhAfterResultFaultKills(id) == IF EhJobFails(id) THEN "done" ELSE "range"

\* where a worker goes after results <- result: back to the range loop,
\* whatever the job did  (lines 164, 177-178)
EhAfterResult(id) == "range"

InitErr ==
    /\ ehJobs = <<>>
    /\ ehJobsClosed = FALSE
    /\ ehResults = <<>>
    /\ ehPc = [w \in EhWorkers |-> "range"]
    /\ ehJob = [w \in EhWorkers |-> 0]
    /\ ehMain = "send"
    /\ ehI = 1
    /\ ehCollected = <<>>
    /\ ehServed = [w \in EhWorkers |-> <<>>]

\* for job := range jobs: a job is received  (line 164)
EhWorkerRecv(w) ==
    /\ ehPc[w] = "range"
    /\ ehJobs # <<>>
    /\ ehJob' = [ehJob EXCEPT ![w] = Head(ehJobs)]
    /\ ehJobs' = Tail(ehJobs)
    /\ ehPc' = [ehPc EXCEPT ![w] = "work"]
    /\ UNCHANGED <<ehJobsClosed, ehResults, ehMain, ehI, ehCollected, ehServed>>

\* the Result is built and sent: results <- result  (lines 170-177)
EhWorkerSend(w) ==
    /\ ehPc[w] = "work"
    /\ Len(ehResults) < numJobsErr
    /\ ehResults' = Append(ehResults, EhResultOf(ehJob[w]))
    /\ ehServed' = [ehServed EXCEPT ![w] = Append(@, EhResultOf(ehJob[w]))]
    /\ ehPc' = [ehPc EXCEPT ![w] = EhAfterResult(ehJob[w])]
    /\ ehJob' = [ehJob EXCEPT ![w] = 0]
    /\ UNCHANGED <<ehJobs, ehJobsClosed, ehMain, ehI, ehCollected>>

\* the range loop ends: jobs is closed and drained  (line 164)
EhWorkerRangeEnd(w) ==
    /\ ehPc[w] = "range"
    /\ ehJobs = <<>>
    /\ ehJobsClosed
    /\ ehPc' = [ehPc EXCEPT ![w] = "done"]
    /\ UNCHANGED <<ehJobs, ehJobsClosed, ehResults, ehJob, ehMain, ehI,
                   ehCollected, ehServed>>

\* jobs <- Job{ID: j, ...}  (lines 183-185)
EhMainSend ==
    /\ ehMain = "send"
    /\ ehI <= numJobsErr
    /\ Len(ehJobs) < numJobsErr
    /\ ehJobs' = Append(ehJobs, ehI)
    /\ ehI' = ehI + 1
    /\ UNCHANGED <<ehJobsClosed, ehResults, ehPc, ehJob, ehMain, ehCollected,
                   ehServed>>

\* close(jobs)  (line 186)
EhMainClose ==
    /\ ehMain = "send"
    /\ ehI > numJobsErr
    /\ ehJobsClosed' = TRUE
    /\ ehMain' = "collect"
    /\ ehI' = 1
    /\ UNCHANGED <<ehJobs, ehResults, ehPc, ehJob, ehCollected, ehServed>>

\* result := <-results, numJobs times  (lines 189-196)
EhMainCollect ==
    /\ ehMain = "collect"
    /\ ehResults # <<>>
    /\ ehCollected' = Append(ehCollected, Head(ehResults))
    /\ ehResults' = Tail(ehResults)
    /\ ehI' = ehI + 1
    /\ ehMain' = IF ehI = numJobsErr THEN "done" ELSE "collect"
    /\ UNCHANGED <<ehJobs, ehJobsClosed, ehPc, ehJob, ehServed>>

\* the results sent so far for job id, over all workers
EhResultsFor(id) ==
    {<<w, i>> \in EhWorkers \X (1..numJobsErr) :
        i <= Len(ehServed[w]) /\ ehServed[w][i].JobID = id}

\* C8: a fault while processing one job is isolated to that job: the
\* faulting job yields exactly one result, carrying an error, every other
\* job yields exactly one successful result, and the worker that hit the
\* fault stays in service (it leaves only when jobs is closed and drained).
C8_FaultIsolated ==
    /\ \A id \in EhJobIds : Cardinality(EhResultsFor(id)) <= 1
    /\ \A w \in EhWorkers : \A i \in 1..Len(ehServed[w]) :
          ehServed[w][i].Failed <=> EhJobFails(ehServed[w][i].JobID)
    /\ \A w \in EhWorkers : ehPc[w] = "done" => (ehJobsClosed /\ ehJobs = <<>>)
    /\ ehMain = "done" =>
          /\ \A id \in EhJobIds : Cardinality(EhResultsFor(id)) = 1
          /\ \A id \in EhJobIds :
                Count(ehCollected, [JobID |-> id, Failed |-> EhJobFails(id)]) = 1

\* main has all its results, and the worker that reported the failure of a
\* job served another job after it
C8_Witness ==
    /\ ehMain = "done"
    /\ \E w \in EhWorkers : \E i \in 1..Len(ehServed[w]) :
          ehServed[w][i].Failed /\ i < Len(ehServed[w])

(***************************************************************************)
(* WorkerPoolWithWaitGroup (part_012:45-84).                               *)
(* main registers each worker with wg.Add(1) and starts it, starts the     *)
(* goroutine that sends the jobs and closes jobs, waits on the WaitGroup,  *)
(* closes results and only then ranges over results.                       *)
(***************************************************************************)
VARIABLES
    wgJobs,          \* buffered channel jobs
    wgJobsClosed,    \* close(jobs) has run
    wgResults,       \* buffered channel results
    wgResultsClosed, \* close(results) has run
    wgCounter,       \* the WaitGroup's counter
    wgPc,            \* worker -> "unstarted", "range", "work", "done"
    wgJob,           \* worker -> the job it holds (0: none)
    wgJ,             \* the sending goroutine's j
    wgMain,          \* main: "start", "wait", "close", "collect", "done"
    wgW,             \* main's w in the start loop
    wgCollected,     \* the results main has received, in order
    wgPanic          \* a send on the closed results channel happened

wgVars == <<wgJobs, wgJobsClosed, wgResults, wgResultsClosed, wgCounter, wgPc,
            wgJob, wgJ, wgMain, wgW, wgCollected, wgPanic>>

numWorkersWg == 4
numJobsWg == 8

WgWorkers == 1..numWorkersWg
WgJobIds == 1..numJobsWg

\* a Wait that returns while one worker is still registered
WgWaitReturnsEarly == wgCounter <= 1

\* wg.Wait() returns when the counter is zero  (line 77)
WgWaitReturns == wgCounter = 0

InitWg ==
    /\ wgJobs = <<>>
    /\ wgJobsClosed = FALSE
    /\ wgResults = <<>>
    /\ wgResultsClosed = FALSE
    /\ wgCounter = 0
    /\ wgPc = [w \in WgWorkers |-> "unstarted"]
    /\ wgJob = [w \in WgWorkers |-> 0]
    /\ wgJ = 1
    /\ wgMain = "start"
    /\ wgW = 1
    /\ wgCollected = <<>>
    /\ wgPanic = FALSE

\* wg.Add(1); go func(id int){...}(w)  (lines 56-58)
WgMainStart ==
    /\ wgMain = "start"
    /\ wgW <= numWorkersWg
    /\ ~wgPanic
    /\ wgCounter' = wgCounter + 1
    /\ wgPc' = [wgPc EXCEPT ![wgW] = "range"]
    /\ wgW' = wgW + 1
    /\ UNCHANGED <<wgJobs, wgJobsClosed, wgResults, wgResultsClosed, wgJob,
                   wgJ, wgMain, wgCollected, wgPanic>>

\* the start loop ends; go func(){...}() starts the sender and main reaches
\* wg.Wait()  (lines 56, 69, 77)
WgMainStarted ==
    /\ wgMain = "start"
    /\ wgW > numWorkersWg
    /\ ~wgPanic
    /\ wgMain' = "wait"
    /\ UNCHANGED <<wgJobs, wgJobsClosed, wgResults, wgResultsClosed, wgCounter,
                   wgPc, wgJob, wgJ, wgW, wgCollected, wgPanic>>

\* jobs <- j  (lines 70-72)
WgProducerSend ==
    /\ wgMain # "start"
    /\ ~wgPanic
    /\ wgJ <= numJobsWg
    /\ Len(wgJobs) < numJobsWg
    /\ wgJobs' = Append(wgJobs, wgJ)
    /\ wgJ' = wgJ + 1
    /\ UNCHANGED <<wgJobsClosed, wgResults, wgResultsClosed, wgCounter, wgPc,
                   wgJob, wgMain, wgW, wgCollected, wgPanic>>

\* close(jobs)  (line 73)
WgProducerClose ==
    /\ wgMain # "start"
    /\ ~wgPanic
    /\ wgJ = numJobsWg + 1
    /\ ~wgJobsClosed
    /\ wgJobsClosed' = TRUE
    /\ UNCHANGED <<wgJobs, wgResults, wgResultsClosed, wgCounter, wgPc, wgJob,
                   wgJ, wgMain, wgW, wgCollected, wgPanic>>

\* for job := range jobs: a job is received  (line 60)
WgWorkerRecv(w) ==
    /\ wgPc[w] = "range"
    /\ ~wgPanic
    /\ wgJobs # <<>>
    /\ wgJob' = [wgJob EXCEPT ![w] = Head(wgJobs)]
    /\ wgJobs' = Tail(wgJobs)
    /\ wgPc' = [wgPc EXCEPT ![w] = "work"]
    /\ UNCHANGED <<wgJobsClosed, wgResults, wgResultsClosed, wgCounter, wgJ,
                   wgMain, wgW, wgCollected, wgPanic>>

\* results <- job * job; on a closed results channel the send panics and
\* the program is gone  (line 63)
WgWorkerSend(w) ==
    /\ wgPc[w] = "work"
    /\ ~wgPanic
    /\ wgResultsClosed \/ Len(wgResults) < numJobsWg
    /\ IF wgResultsClosed
          THEN /\ wgPanic' = TRUE
               /\ UNCHANGED <<wgResults, wgJob, wgPc>>
          ELSE /\ wgResults' = Append(wgResults, wgJob[w] * wgJob[w])
               /\ wgJob' = [wgJob EXCEPT ![w] = 0]
               /\ wgPc' = [wgPc EXCEPT ![w] = "range"]
               /\ UNCHANGED wgPanic
    /\ UNCHANGED <<wgJobs, wgJobsClosed, wgResultsClosed, wgCounter, wgJ,
                   wgMain, wgW, wgCollected>>

\* the range loop ends, the worker returns and its deferred wg.Done() runs
\* (lines 59-60, 64)
WgWorkerDone(w) ==
    /\ wgPc[w] = "range"
    /\ ~wgPanic
    /\ wgJobs = <<>>
    /\ wgJobsClosed
    /\ wgPc' = [wgPc EXCEPT ![w] = "done"]
    /\ wgCounter' = wgCounter - 1
    /\ UNCHANGED <<wgJobs, wgJobsClosed, wgResults, wgResultsClosed, wgJob,
                   wgJ, wgMain, wgW, wgCollected, wgPanic>>

\* wg.Wait() returns  (line 77)
WgMainWait ==
    /\ wgMain = "wait"
    /\ ~wgPanic
    /\ WgWaitReturns
    /\ wgMain' = "close"
    /\ UNCHANGED <<wgJobs, wgJobsClosed, wgResults, wgResultsClosed, wgCounter,
                   wgPc, wgJob, wgJ, wgW, wgCollected, wgPanic>>

\* close(results)  (line 78)
WgMainClose ==
    /\ wgMain = "close"
    /\ ~wgPanic
    /\ wgResultsClosed' = TRUE
    /\ wgMain' = "collect"
    /\ UNCHANGED <<wgJobs, wgJobsClosed, wgResults, wgCounter, wgPc, wgJob,
                   wgJ, wgW, wgCollected, wgPanic>>

\* for result := range results: a result is received  (lines 81-83)
WgMainCollect ==
    /\ wgMain = "collect"
    /\ ~wgPanic
    /\ wgResults # <<>>
    /\ wgCollected' = Append(wgCollected, Head(wgResults))
    /\ wgResults' = Tail(wgResults)
    /\ UNCHANGED <<wgJobs, wgJobsClosed, wgResultsClosed, wgCounter, wgPc,
                   wgJob, wgJ, wgMain, wgW, wgPanic>>

\* the range over results ends: results is closed and drained  (line 81)
WgMainCollectEnd ==
    /\ wgMain = "collect"
    /\ ~wgPanic
    /\ wgResults = <<>>
    /\ wgResultsClosed
    /\ wgMain' = "done"
    /\ UNCHANGED <<wgJobs, wgJobsClosed, wgResults, wgResultsClosed, wgCounter,
                   wgPc, wgJob, wgJ, wgW, wgCollected, wgPanic>>

\* how many results for job id have been sent so far
WgResultsFor(id) == Count(wgCollected \o wgResults, id * id)

\* C9: shutdown is graceful.  A worker leaves only when jobs is closed and
\* empty; wg.Wait() has returned only if every worker has left and every job
\* that was sent has its result; results is closed only after that, never
\* sent to afterwards, and main then receives every result.
C9_GracefulShutdown ==
    /\ ~wgPanic
    /\ \A w \in WgWorkers : wgPc[w] = "done" => (wgJobsClosed /\ wgJobs = <<>>)
    /\ wgMain \in {"close", "collect", "done"} =>
          /\ \A w \in WgWorkers : wgPc[w] = "done"
          /\ wgJ = numJobsWg + 1
          /\ \A id \in WgJobIds : WgResultsFor(id) = 1
    /\ wgResultsClosed => wgMain \in {"collect", "done"}
    /\ wgMain = "done" =>
          \A id \in WgJobIds : Count(wgCollected, id * id) = 1

\* main has ranged over the closed results channel to its end, and more
\* than one worker took part in the work
C9_Witness ==
    /\ wgMain = "done"
    /\ Len(wgCollected) = numJobsWg
    /\ wgResultsClosed
    /\ \A w \in WgWorkers : wgPc[w] = "done"

(***************************************************************************)
(* WorkerPoolWithContext (part_012:87-138).                                *)
(* ctx is a context with a timeout.  A worker selects between receiving a  *)
(* job and ctx.Done(), and sends its result with a plain send; the sending *)
(* goroutine selects between sending a job and ctx.Done(); main sleeps,    *)
(* closes results, ranges over it and returns, which runs the deferred     *)
(* cancel().  The sleeps order nothing between the goroutines.             *)
(***************************************************************************)
VARIABLES
    cxJobs,          \* buffered channel jobs
    cxJobsClosed,    \* close(jobs) has run
    cxResults,       \* buffered channel results
    cxResultsClosed, \* close(results) has run
    cxFired,         \* ctx.Done() is closed
    cxPc,            \* worker -> "select", "send", "done"
    cxJob,           \* worker -> the job it holds (0: none)
    cxJ,             \* the sending goroutine's j
    cxProd,          \* the sending goroutine: "loop", "done"
    cxMain,          \* main: "sleep", "collect", "done"
    cxCollected,     \* the results main has received, in order
    cxPanic,         \* a send on the closed results channel happened
    cxTaken,         \* history: the jobs received from jobs, in order
    cxSentinel,      \* history: the workers that received ok = false
    cxClosedWith     \* history: what jobs held when it was closed

cxVars == <<cxJobs, cxJobsClosed, cxResults, cxResultsClosed, cxFired, cxPc,
            cxJob, cxJ, cxProd, cxMain, cxCollected, cxPanic, cxTaken,
            cxSentinel, cxClosedWith>>

numWorkersCtx == 3
\* the example sends 10 jobs (line 119); the model runs it with fewer
numJobsCtx == 4
chanCapCtx == 10
resultFactorCtx == 3

CxWorkers == 1..numWorkersCtx

\* a receive that reports ok = false as soon as jobs is closed
CxNoMoreJobsOnClose == cxJobsClosed

\* job, ok := <-jobs yields ok = false: jobs is closed and nothing is
\* buffered in it  (lines 102-103)
CxNoMoreJobs == cxJobs = <<>> /\ cxJobsClosed

InitCtxPool ==
    /\ cxJobs = <<>>
    /\ cxJobsClosed = FALSE
    /\ cxResults = <<>>
    /\ cxResultsClosed = FALSE
    /\ cxFired = FALSE
    /\ cxPc = [w \in CxWorkers |-> "select"]
    /\ cxJob = [w \in CxWorkers |-> 0]
    /\ cxJ = 1
    /\ cxProd = "loop"
    /\ cxMain = "sleep"
    /\ cxCollected = <<>>
    /\ cxPanic = FALSE
    /\ cxTaken = <<>>
    /\ cxSentinel = {}
    /\ cxClosedWith = <<>>

\* the 500ms timeout of ctx expires  (line 90)
CxTimeout ==
    /\ ~cxPanic
    /\ ~cxFired
    /\ cxFired' = TRUE
    /\ UNCHANGED <<cxJobs, cxJobsClosed, cxResults, cxResultsClosed, cxPc,
                   cxJob, cxJ, cxProd, cxMain, cxCollected, cxPanic>>
    /\ UNCHANGED <<cxTaken, cxSentinel, cxClosedWith>>

\* case job, ok := <-jobs with ok true  (lines 102, 106-107)
CxWorkerRecv(w) ==
    /\ ~cxPanic
    /\ cxPc[w] = "select"
    /\ cxJobs # <<>>
    /\ cxJob' = [cxJob EXCEPT ![w] = Head(cxJobs)]
    /\ cxJobs' = Tail(cxJobs)
    /\ cxPc' = [cxPc EXCEPT ![w] = "send"]
    /\ UNCHANGED <<cxJobsClosed, cxResults, cxResultsClosed, cxFired, cxJ,
                   cxProd, cxMain, cxCollected, cxPanic>>
    /\ cxTaken' = Append(cxTaken, Head(cxJobs))
    /\ UNCHANGED <<cxSentinel, cxClosedWith>>

\* case job, ok := <-jobs with ok false: return  (lines 102-105)
CxWorkerJobsClosed(w) ==
    /\ ~cxPanic
    /\ cxPc[w] = "select"
    /\ CxNoMoreJobs
    /\ cxPc' = [cxPc EXCEPT ![w] = "done"]
    /\ UNCHANGED <<cxJobs, cxJobsClosed, cxResults, cxResultsClosed, cxFired,
                   cxJob, cxJ, cxProd, cxMain, cxCollected, cxPanic>>
    /\ cxSentinel' = cxSentinel \cup {w}
    /\ UNCHANGED <<cxTaken, cxClosedWith>>

\* case <-ctx.Done(): return  (lines 109-111)
CxWorkerCancelled(w) ==
    /\ ~cxPanic
    /\ cxPc[w] = "select"
    /\ cxFired
    /\ cxPc' = [cxPc EXCEPT ![w] = "done"]
    /\ UNCHANGED <<cxJobs, cxJobsClosed, cxResults, cxResultsClosed, cxFired,
                   cxJob, cxJ, cxProd, cxMain, cxCollected, cxPanic>>
    /\ UNCHANGED <<cxTaken, cxSentinel, cxClosedWith>>

\* results <- job * 3, a plain send outside the select; on a closed results
\* channel the send panics and the program is gone  (line 108)
CxWorkerSend(w) ==
    /\ ~cxPanic
    /\ cxPc[w] = "send"
    /\ cxResultsClosed \/ Len(cxResults) < chanCapCtx
    /\ IF cxResultsClosed
          THEN /\ cxPanic' = TRUE
               /\ UNCHANGED <<cxResults, cxJob, cxPc>>
          ELSE /\ cxResults' = Append(cxResults, cxJob[w] * resultFactorCtx)
               /\ cxJob' = [cxJob EXCEPT ![w] = 0]
               /\ cxPc' = [cxPc EXCEPT ![w] = "select"]
               /\ UNCHANGED cxPanic
    /\ UNCHANGED <<cxJobs, cxJobsClosed, cxResultsClosed, cxFired, cxJ, cxProd,
                   cxMain, cxCollected>>
    /\ UNCHANGED <<cxTaken, cxSentinel, cxClosedWith>>

\* case jobs <- j  (lines 119-122)
CxProducerSend ==
    /\ ~cxPanic
    /\ cxProd = "loop"
    /\ cxJ <= numJobsCtx
    /\ Len(cxJobs) < chanCapCtx
    /\ cxJobs' = Append(cxJobs, cxJ)
    /\ cxJ' = cxJ + 1
    /\ UNCHANGED <<cxJobsClosed, cxResults, cxResultsClosed, cxFired, cxPc,
                   cxJob, cxProd, cxMain, cxCollected, cxPanic>>
    /\ UNCHANGED <<cxTaken, cxSentinel, cxClosedWith>>

\* case <-ctx.Done(): close(jobs); return  (lines 123-125)
CxProducerCancelled ==
    /\ ~cxPanic
    /\ cxProd = "loop"
    /\ cxJ <= numJobsCtx
    /\ cxFired
    /\ cxJobsClosed' = TRUE
    /\ cxProd' = "done"
    /\ UNCHANGED <<cxJobs, cxResults, cxResultsClosed, cxFired, cxPc, cxJob,
                   cxJ, cxMain, cxCollected, cxPanic>>
    /\ cxClosedWith' = cxJobs
    /\ UNCHANGED <<cxTaken, cxSentinel>>

\* the loop ends: close(jobs)  (line 128)
CxProducerClose ==
    /\ ~cxPanic
    /\ cxProd = "loop"
    /\ cxJ > numJobsCtx
    /\ cxJobsClosed' = TRUE
    /\ cxProd' = "done"
    /\ UNCHANGED <<cxJobs, cxResults, cxResultsClosed, cxFired, cxPc, cxJob,
                   cxJ, cxMain, cxCollected, cxPanic>>
    /\ cxClosedWith' = cxJobs
    /\ UNCHANGED <<cxTaken, cxSentinel>>

\* time.Sleep(600ms) is over: close(results)  (lines 132-133)
CxMainClose ==
    /\ ~cxPanic
    /\ cxMain = "sleep"
    /\ cxResultsClosed' = TRUE
    /\ cxMain' = "collect"
    /\ UNCHANGED <<cxJobs, cxJobsClosed, cxResults, cxFired, cxPc, cxJob, cxJ,
                   cxProd, cxCollected, cxPanic>>
    /\ UNCHANGED <<cxTaken, cxSentinel, cxClosedWith>>

\* for result := range results: a result is received  (lines 135-137)
CxMainCollect ==
    /\ ~cxPanic
    /\ cxMain = "collect"
    /\ cxResults # <<>>
    /\ cxCollected' = Append(cxCollected, Head(cxResults))
    /\ cxResults' = Tail(cxResults)
    /\ UNCHANGED <<cxJobs, cxJobsClosed, cxResultsClosed, cxFired, cxPc, cxJob,
                   cxJ, cxProd, cxMain, cxPanic>>
    /\ UNCHANGED <<cxTaken, cxSentinel, cxClosedWith>>

\* the range ends and main returns: the deferred cancel() runs
\* (lines 91, 135-138)
CxMainReturn ==
    /\ ~cxPanic
    /\ cxMain = "collect"
    /\ cxResults = <<>>
    /\ cxMain' = "done"
    /\ cxFired' = TRUE
    /\ UNCHANGED <<cxJobs, cxJobsClosed, cxResults, cxResultsClosed, cxPc,
                   cxJob, cxJ, cxProd, cxCollected, cxPanic>>
    /\ UNCHANGED <<cxTaken, cxSentinel, cxClosedWith>>

\* C10: in the context-aware pool every blocking operation of a worker and
\* of the producer is a choice between the operation and the token's Done
\* signal: once the token has fired, a worker that stands at a job receive
\* or at a result send, and the producer that stands at a job send, can
\* leave through its Done branch.
C10_EveryBlockingOpSelectsDone ==
    (cxFired /\ ~cxPanic) =>
        /\ \A w \in CxWorkers :
              cxPc[w] \in {"select", "send"} => ENABLED CxWorkerCancelled(w)
        /\ (cxProd = "loop" /\ cxJ <= numJobsCtx) => ENABLED CxProducerCancelled

(***************************************************************************)
(* WorkerPoolWithRateLimiting (part_012:200-236).                          *)
(* rateLimiter is a time.Ticker shared by the workers: its channel holds   *)
(* at most one tick and a tick that finds the channel full is dropped.  A  *)
(* worker receives a job, then receives a tick, then processes the job and *)
(* sends the result.  main sends the jobs, closes jobs, receives numJobs   *)
(* results and returns, which runs the deferred rateLimiter.Stop().        *)
(***************************************************************************)
VARIABLES
    rlJobs,        \* buffered channel jobs
    rlJobsClosed,  \* close(jobs) has run
    rlResults,     \* buffered channel results
    rlTickerC,     \* number of ticks waiting in rateLimiter.C
    rlPc,          \* worker -> "range", "gate", "work", "done"
    rlJob,         \* worker -> the job it holds (0: none)
    rlMain,        \* main: "send", "collect", "done"
    rlI,           \* main's loop variable (j, then r)
    rlCollected,   \* the results main has received, in order
    rlIssued,      \* history: ticks delivered into rateLimiter.C
    rlStarted      \* history: the jobs whose processing started, in order

rlVars == <<rlJobs, rlJobsClosed, rlResults, rlTickerC, rlPc, rlJob, rlMain,
            rlI, rlCollected, rlIssued, rlStarted>>

numWorkersRate == 2
\* the example sends 8 jobs (line 204); the model runs it with fewer
numJobsRate == 5
tickerCap == 1
resultFactorRate == 4

RlWorkers == 1..numWorkersRate
RlJobIds == 1..numJobsRate

\* a receive that leaves the tick in the channel
RlAfterAcquireKept(c) == c

\* <-rateLimiter.C takes one tick out of the channel  (line 217)
RlAfterAcquire(c) == c - 1

InitRate ==
    /\ rlJobs = <<>>
    /\ rlJobsClosed = FALSE
    /\ rlResults = <<>>
    /\ rlTickerC = 0
    /\ rlPc = [w \in RlWorkers |-> "range"]
    /\ rlJob = [w \in RlWorkers |-> 0]
    /\ rlMain = "send"
    /\ rlI = 1
    /\ rlCollected = <<>>
    /\ rlIssued = 0
    /\ rlStarted = <<>>

\* the ticker fires: the tick is delivered when rateLimiter.C has room and
\* dropped otherwise; Stop() ends the ticks  (lines 210-211)
RlTick ==
    /\ rlMain # "done"
    /\ rlTickerC < tickerCap
    /\ rlTickerC' = rlTickerC + 1
    /\ rlIssued' = rlIssued + 1
    /\ UNCHANGED <<rlJobs, rlJobsClosed, rlResults, rlPc, rlJob, rlMain, rlI,
                   rlCollected, rlStarted>>

\* for job := range jobs: a job is received  (line 216)
RlWorkerRecv(w) ==
    /\ rlPc[w] = "range"
    /\ rlJobs # <<>>
    /\ rlJob' = [rlJob EXCEPT ![w] = Head(rlJobs)]
    /\ rlJobs' = Tail(rlJobs)
    /\ rlPc' = [rlPc EXCEPT ![w] = "gate"]
    /\ UNCHANGED <<rlJobsClosed, rlResults, rlTickerC, rlMain, rlI,
                   rlCollected, rlIssued, rlStarted>>

\* <-rateLimiter.C: the worker takes a tick and starts on its job
\* (lines 217-219)
RlWorkerAcquire(w) ==
    /\ rlPc[w] = "gate"
    /\ rlTickerC > 0
    /\ rlTickerC' = RlAfterAcquire(rlTickerC)
    /\ rlStarted' = Append(rlStarted, rlJob[w])
    /\ rlPc' = [rlPc EXCEPT ![w] = "work"]
    /\ UNCHANGED <<rlJobs, rlJobsClosed, rlResults, rlJob, rlMain, rlI,
                   rlCollected, rlIssued>>

\* results <- job * 4  (line 220)
RlWorkerSend(w) ==
    /\ rlPc[w] = "work"
    /\ Len(rlResults) < numJobsRate
    /\ rlResults' = Append(rlResults, rlJob[w] * resultFactorRate)
    /\ rlJob' = [rlJob EXCEPT ![w] = 0]
    /\ rlPc' = [rlPc EXCEPT ![w] = "range"]
    /\ UNCHANGED <<rlJobs, rlJobsClosed, rlTickerC, rlMain, rlI, rlCollected,
                   rlIssued, rlStarted>>

\* the range loop ends: jobs is closed and drained  (lines 216, 221)
RlWorkerRangeEnd(w) ==
    /\ rlPc[w] = "range"
    /\ rlJobs = <<>>
    /\ rlJobsClosed
    /\ rlPc' = [rlPc EXCEPT ![w] = "done"]
    /\ UNCHANGED <<rlJobs, rlJobsClosed, rlResults, rlTickerC, rlJob, rlMain,
                   rlI, rlCollected, rlIssued, rlStarted>>

\* jobs <- j  (lines 226-228)
RlMainSend ==
    /\ rlMain = "send"
    /\ rlI <= numJobsRate
    /\ Len(rlJobs) < numJobsRate
    /\ rlJobs' = Append(rlJobs, rlI)
    /\ rlI' = rlI + 1
    /\ UNCHANGED <<rlJobsClosed, rlResults, rlTickerC, rlPc, rlJob, rlMain,
                   rlCollected, rlIssued, rlStarted>>

\* close(jobs)  (line 229)
RlMainClose ==
    /\ rlMain = "send"
    /\ rlI > numJobsRate
    /\ rlJobsClosed' = TRUE
    /\ rlMain' = "collect"
    /\ rlI' = 1
    /\ UNCHANGED <<rlJobs, rlResults, rlTickerC, rlPc, rlJob, rlCollected,
                   rlIssued, rlStarted>>

\* result := <-results, numJobs times; after the last one main returns and
\* the deferred rateLimiter.Stop() runs  (lines 211, 232-235)
RlMainCollect ==
    /\ rlMain = "collect"
    /\ rlResults # <<>>
    /\ rlCollected' = Append(rlCollected, Head(rlResults))
    /\ rlResults' = Tail(rlResults)
    /\ rlI' = rlI + 1
    /\ rlMain' = IF rlI = numJobsRate THEN "done" ELSE "collect"
    /\ UNCHANGED <<rlJobs, rlJobsClosed, rlTickerC, rlPc, rlJob, rlIssued,
                   rlStarted>>

\* C11: token accounting of the shared rate gate.  A worker is processing
\* only a job that is among the started ones, each job starts at most once,
\* every tick issued is either still waiting or has admitted exactly one
\* job, waiting ticks never exceed the ticker's capacity, and so the number
\* of jobs started is at most the number of ticks issued.
C11_TokenAccounting ==
    /\ Len(rlStarted) <= rlIssued
    /\ rlIssued = Len(rlStarted) + rlTickerC
    /\ rlTickerC \in 0..tickerCap
    /\ \A j \in RlJobIds : Count(rlStarted, j) <= 1
    /\ \A w \in RlWorkers : rlPc[w] = "work" => Count(rlStarted, rlJob[w]) = 1
    /\ \A w \in RlWorkers : rlPc[w] = "gate" => Count(rlStarted, rlJob[w]) = 0
    /\ Len(rlCollected) + Len(rlResults) <= Len(rlStarted)

\* jobs have already started and now every worker stands at the gate with
\* a job in hand while a single tick waits in the channel
C11_Witness ==
    /\ \A w \in RlWorkers : rlPc[w] = "gate"
    /\ rlTickerC = tickerCap
    /\ Len(rlStarted) >= numWorkersRate

(***************************************************************************)
(* Routing in FanOutBasic (env.go:256-326): which lane takes which job.    *)
(***************************************************************************)

\* C12: fan-out over N lanes is round-robin: the i-th job taken from the
\* input (counting from 0) is handled by lane i mod N, and so the numbers
\* of jobs the lanes have taken differ by at most one.
C12_RoundRobin ==
    /\ \A w \in Lanes : \A i \in 1..Len(foHandled[w]) :
          (foHandled[w][i] - 1) % numLanes = w
    /\ \A v \in Lanes : \A w \in Lanes :
          Len(foHandled[v]) - Len(foHandled[w]) <= 1

(***************************************************************************)
(* Order of the merged output of FanInBasic (env.go:329-402) and of the    *)
(* select loop FanInWithSelect and FanInWithBuffering share                *)
(* (env.go:532-602, 659-731).                                              *)
(***************************************************************************)

\* the input lane an item was sent on
FiLaneOf(item) == ((item - 1) \div FiItemsPerLane) + 1

\* everything sent to the output so far, in the order it was sent
FiMerged == fiCollected \o fiOutput

\* the items of lane l in the merge, in the order the merge has them
FiMergedFrom(l) ==
    LET FromLane(item) == FiLaneOf(item) = l
    IN  SelectSeq(FiMerged, FromLane)

C14_StepNamesCause(t) ==
    /\ ctxErr[t] # "nil" => ctxErr'[t] = ctxErr[t]
    /\ ctxDone[t] => ctxDone'[t]
    /\ (ctxErr[t] = "nil" /\ ctxErr'[t] # "nil") =>
          IF ctxParent[t] = -1
             THEN ctxErr'[t] = CtxErrOf(ctxParent'[t])
             ELSE \/ /\ \E a \in {t} \cup CtxAncestors(t) : CtxTimerFire(a)
                     /\ ctxErr'[t] = "DeadlineExceeded"
                  \/ /\ \E a \in {t} \cup CtxAncestors(t) : CtxCancel(a)
                     /\ ctxErr'[t] = "Canceled"

\* C14: the reason a fired token reports identifies what fired it first:
\* DeadlineExceeded when its own or an ancestor's timer fired, Canceled when
\* an explicit cancel of it or of an ancestor came first; Err() is nil
\* exactly while Done has not fired; and the reason never changes once set.
C14_ErrNamesCause ==
    /\ [](\A t \in Tokens : (ctxErr[t] = "nil") <=> ~ctxDone[t])
    /\ [][\A t \in Tokens : C14_StepNamesCause(t)]_ctxVars

\* a token without a timer of its own reports DeadlineExceeded because the
\* timer of its parent fired, while another token was cancelled explicitly
C14_Witness ==
    \E a, b, c \in CtxCreated :
       /\ ctxParent[b] = a /\ ctxTimer[a] # 0 /\ ctxTimer[b] = 0
       /\ ctxErr[a] = "DeadlineExceeded" /\ ctxErr[b] = "DeadlineExceeded"
       /\ ctxErr[c] = "Canceled"

(***************************************************************************)
(* Retirement of workers in WorkerPoolWithDynamicScaling                   *)
(* (part_012:435-492): the only way out of startWorker is the end of the   *)
(* range over jobs.                                                        *)
(***************************************************************************)

\* C15: scale-down: while the pool is open, once the queue has drained and
\* the workers are idle, a worker above the initial two can retire, so that
\* the worker count shrinks back toward the minimum; and the count of
\* workers in service does not go below the minimum while the pool is open
\* and the initial workers have started.
C15_ScaleDownWhenDrained ==
    /\ (/\ ~dsJobsClosed
        /\ dsJobs = <<>>
        /\ dsWorkers["work"] = 0
        /\ dsWorkers["start"] = 0
        /\ workerCount > initialWorkers)
          => ENABLED DynWorkerRangeEnd
    /\ (~dsJobsClosed /\ dsWorkers["start"] = 0) => workerCount >= initialWorkers

(***************************************************************************)
(* SelectWithNonBlockingSend (select_statements.go:328-357).               *)
(* ch is a channel with a buffer of one.  A send is a select with a        *)
(* default branch: it puts the message in the buffer when there is room    *)
(* and takes the default branch, leaving ch alone, when there is none.  A  *)
(* receive is a select with a default branch as well.  The example does    *)
(* two sends and then two receives; the model runs the same two            *)
(* operations in every order, a bounded number of times each.              *)
(***************************************************************************)
VARIABLES
    nbCh,        \* the buffered channel ch
    nbNext,      \* the number of the next message to send (1: "First message")
    nbRecvs,     \* receive attempts made so far
    nbSent,      \* history: the messages a send put into ch, in order
    nbRejected,  \* history: the sends that took the default branch, each
                 \*          with the buffer it found
    nbReceived,  \* history: the messages received, in order
    nbMisses     \* history: receives that took the default branch

nbVars == <<nbCh, nbNext, nbRecvs, nbSent, nbRejected, nbReceived, nbMisses>>

chanCapNb == 1
\* the example makes 2 send attempts and 2 receive attempts (lines 335-356)
MaxSendsNb == 5
MaxRecvsNb == 5

\* a send on a full channel that pushes the oldest message out
NbOnFullOverwrite(ch, msg) == Append(Tail(ch), msg)

\* the default branch of the send: ch is left as it is  (lines 337-338,
\* 344-345)
NbOnFull(ch, msg) == ch

InitNb ==
    /\ nbCh = <<>>
    /\ nbNext = 1
    /\ nbRecvs = 0
    /\ nbSent = <<>>
    /\ nbRejected = <<>>
    /\ nbReceived = <<>>
    /\ nbMisses = 0

\* select { case ch <- msg: ... default: ... }  (lines 334-346)
NbTrySend ==
    /\ nbNext <= MaxSendsNb
    /\ IF Len(nbCh) < chanCapNb
          THEN /\ nbCh' = Append(nbCh, nbNext)
               /\ nbSent' = Append(nbSent, nbNext)
               /\ UNCHANGED nbRejected
          ELSE /\ nbCh' = NbOnFull(nbCh, nbNext)
               /\ nbRejected' = Append(nbRejected, [msg |-> nbNext, found |-> nbCh])
               /\ UNCHANGED nbSent
    /\ nbNext' = nbNext + 1
    /\ UNCHANGED <<nbRecvs, nbReceived, nbMisses>>

\* select { case msg := <-ch: ... default: ... }  (lines 349-356)
NbTryRecv ==
    /\ nbRecvs < MaxRecvsNb
    /\ IF nbCh # <<>>
          THEN /\ nbReceived' = Append(nbReceived, Head(nbCh))
               /\ nbCh' = Tail(nbCh)
               /\ UNCHANGED nbMisses
          ELSE /\ nbMisses' = nbMisses + 1
               /\ UNCHANGED <<nbCh, nbReceived>>
    /\ nbRecvs' = nbRecvs + 1
    /\ UNCHANGED <<nbNext, nbSent, nbRejected>>

\* C16: a non-blocking enqueue on a queue at capacity fails at once and
\* changes nothing: a send attempt is never blocked; a send is rejected
\* only when the buffer it finds is full; the messages accepted so far are
\* exactly those received plus those still buffered, in the order they were
\* accepted; and a rejected message is neither buffered nor ever received.
C16_RejectedSendLeavesQueue ==
    /\ Len(nbCh) <= chanCapNb
    /\ nbNext <= MaxSendsNb => ENABLED NbTrySend
    /\ nbSent = nbReceived \o nbCh
    /\ Len(nbSent) + Len(nbRejected) = nbNext - 1
    /\ \A i \in 1..Len(nbRejected) :
          /\ Len(nbRejected[i].found) = chanCapNb
          /\ Count(nbSent, nbRejected[i].msg) = 0
    /\ \A i \in 1..Len(nbSent) : \A j \in 1..Len(nbSent) :
          i < j => nbSent[i] < nbSent[j]

\* the example's own run, possibly followed by more: the first message was
\* accepted, the second was rejected by the full buffer that held the
\* first, the first was then received and the next receive found nothing
C16_Witness ==
    /\ Len(nbRejected) >= 1
    /\ nbRejected[1] = [msg |-> 2, found |-> <<1>>]
    /\ Len(nbReceived) >= 1
    /\ nbReceived[1] = 1
    /\ nbMisses >= 1

(***************************************************************************)
(* Closing the job queue of WorkerPoolWithContext (part_012:98-128): what  *)
(* the workers receive around close(jobs).                                 *)
(***************************************************************************)

\* the jobs sent so far, in the order they were sent
CxSentJobs == [i \in 1..(cxJ - 1) |-> i]

\* C17: a dequeue reports "no more jobs" only when the queue is closed and
\* empty: nothing that was enqueued is ever discarded or reordered (the
\* jobs received followed by the jobs still buffered are the jobs sent, in
\* order), and once some worker has received ok = false the queue is
\* closed and every job sent before the close has been received.
C17_SentinelOnlyWhenDrained ==
    /\ cxTaken \o cxJobs = CxSentJobs
    /\ cxSentinel # {} =>
          /\ cxJobsClosed
          /\ cxJobs = <<>>
          /\ cxTaken = CxSentJobs

\* jobs was closed while it still held jobs, those jobs were received
\* afterwards, and only then a worker received ok = false
C17_Witness ==
    /\ cxClosedWith # <<>>
    /\ cxSentinel # {}
    /\ Len(cxTaken) >= Len(cxClosedWith)
    /\ ~cxPanic

(***************************************************************************)
(* The accesses to workerCount in WorkerPoolWithDynamicScaling             *)
(* (part_012:443-482), with the mutex mu explicit: who holds mu, and where *)
(* each goroutine stands when it reads or writes the counter.  Worker      *)
(* positions:                                                              *)
(*   "idle"       not spawned                                              *)
(*   "lockInc"    at mu.Lock()        (line 448)                           *)
(*   "inc"        at workerCount++    (line 449)                           *)
(*   "unlockInc"  at mu.Unlock()      (line 450)                           *)
(*   "range"      at for job := range jobs        (line 458)               *)
(*   "print"      at the Printf that reads workerCount  (line 459)         *)
(*   "send"       at results <- job * 6           (line 461)               *)
(*   "lockDec", "dec", "unlockDec"  the deferred function (lines 452-456)  *)
(*   "gone"       returned                                                 *)
(* results has room for every job, so the send never blocks and the        *)
(* collector is left out.                                                  *)
(***************************************************************************)
VARIABLES
    clMu,          \* the holder of mu: a worker, Dispatcher, or NoHolder
    clCount,       \* workerCount
    clPc,          \* worker -> its position
    clSeen,        \* worker -> the value its last Printf read (-1: none)
    clJobs,        \* number of jobs waiting in the channel jobs
    clJobsClosed,  \* close(jobs) has run
    clJ,           \* the dispatcher's j
    clDPc          \* the dispatcher: "send", "lock", "check", "unlock",
                   \*                 "closed"

clVars == <<clMu, clCount, clPc, clSeen, clJobs, clJobsClosed, clJ, clDPc>>

\* the example sends 15 jobs (line 439); the model runs it with fewer
numJobsCl == 3

NoHolder == -1
Dispatcher == 0
\* the two initial workers and one more for each scale-up test that can pass
ClWorkers == 1..(initialWorkers + (numJobsCl \div scaleEvery))

InitCl ==
    /\ clMu = NoHolder
    /\ clCount = 0
    /\ clPc = [w \in ClWorkers |-> IF w <= initialWorkers THEN "lockInc" ELSE "idle"]
    /\ clSeen = [w \in ClWorkers |-> -1]
    /\ clJobs = 0
    /\ clJobsClosed = FALSE
    /\ clJ = 1
    /\ clDPc = "send"

\* mu.Lock() by worker w, on entry or in the deferred function
\* (lines 448, 453)
ClWorkerLock(w) ==
    /\ clPc[w] \in {"lockInc", "lockDec"}
    /\ clMu = NoHolder
    /\ clMu' = w
    /\ clPc' = [clPc EXCEPT ![w] = IF @ = "lockInc" THEN "inc" ELSE "dec"]
    /\ UNCHANGED <<clCount, clSeen, clJobs, clJobsClosed, clJ, clDPc>>

\* workerCount++  (line 449)
ClWorkerInc(w) ==
    /\ clPc[w] = "inc"
    /\ clCount' = clCount + 1
    /\ clPc' = [clPc EXCEPT ![w] = "unlockInc"]
    /\ UNCHANGED <<clMu, clSeen, clJobs, clJobsClosed, clJ, clDPc>>

\* workerCount--  (line 454)
ClWorkerDec(w) ==
    /\ clPc[w] = "dec"
    /\ clCount' = clCount - 1
    /\ clPc' = [clPc EXCEPT ![w] = "unlockDec"]
    /\ UNCHANGED <<clMu, clSeen, clJobs, clJobsClosed, clJ, clDPc>>

\* mu.Unlock() by worker w  (lines 450, 455)
ClWorkerUnlock(w) ==
    /\ clPc[w] \in {"unlockInc", "unlockDec"}
    /\ clMu' = NoHolder
    /\ clPc' = [clPc EXCEPT ![w] = IF @ = "unlockInc" THEN "range" ELSE "gone"]
    /\ UNCHANGED <<clCount, clSeen, clJobs, clJobsClosed, clJ, clDPc>>

\* for job := range jobs: a job is received  (line 458)
ClWorkerRecv(w) ==
    /\ clPc[w] = "range"
    /\ clJobs > 0
    /\ clJobs' = clJobs - 1
    /\ clPc' = [clPc EXCEPT ![w] = "print"]
    /\ UNCHANGED <<clMu, clCount, clSeen, clJobsClosed, clJ, clDPc>>

\* fmt.Printf(..., workerCount): the counter is read  (line 459)
ClWorkerPrint(w) ==
    /\ clPc[w] = "print"
    /\ clSeen' = [clSeen EXCEPT ![w] = clCount]
    /\ clPc' = [clPc EXCEPT ![w] = "send"]
    /\ UNCHANGED <<clMu, clCount, clJobs, clJobsClosed, clJ, clDPc>>

\* results <- job * 6  (line 461)
ClWorkerSend(w) ==
    /\ clPc[w] = "send"
    /\ clPc' = [clPc EXCEPT ![w] = "range"]
    /\ UNCHANGED <<clMu, clCount, clSeen, clJobs, clJobsClosed, clJ, clDPc>>

\* the range loop ends and the deferred function starts  (lines 452, 458)
ClWorkerRangeEnd(w) ==
    /\ clPc[w] = "range"
    /\ clJobs = 0
    /\ clJobsClosed
    /\ clPc' = [clPc EXCEPT ![w] = "lockDec"]
    /\ UNCHANGED <<clMu, clCount, clSeen, clJobs, clJobsClosed, clJ, clDPc>>

\* jobs <- j  (line 473)
ClDispatchSend ==
    /\ clDPc = "send"
    /\ clJ <= numJobsCl
    /\ clJobs' = clJobs + 1
    /\ clDPc' = "lock"
    /\ UNCHANGED <<clMu, clCount, clPc, clSeen, clJobsClosed, clJ>>

\* mu.Lock() by the dispatcher  (line 476)
ClDispatchLock ==
    /\ clDPc = "lock"
    /\ clMu = NoHolder
    /\ clMu' = Dispatcher
    /\ clDPc' = "check"
    /\ UNCHANGED <<clCount, clPc, clSeen, clJobs, clJobsClosed, clJ>>

\* if workerCount < maxWorkers && j%3 == 0 { go startWorker(...) }
\* (lines 477-479)
ClDispatchCheck ==
    /\ clDPc = "check"
    /\ IF clCount < maxWorkers /\ clJ % scaleEvery = 0
          THEN LET w == initialWorkers + (clJ \div scaleEvery)
               IN  clPc' = [clPc EXCEPT ![w] = "lockInc"]
          ELSE UNCHANGED clPc
    /\ clDPc' = "unlock"
    /\ UNCHANGED <<clMu, clCount, clSeen, clJobs, clJobsClosed, clJ>>

\* mu.Unlock() by the dispatcher; j++  (lines 480, 472)
ClDispatchUnlock ==
    /\ clDPc = "unlock"
    /\ clMu' = NoHolder
    /\ clJ' = clJ + 1
    /\ clDPc' = "send"
    /\ UNCHANGED <<clCount, clPc, clSeen, clJobs, clJobsClosed>>

\* close(jobs)  (line 484)
ClDispatchClose ==
    /\ clDPc = "send"
    /\ clJ > numJobsCl
    /\ clJobsClosed' = TRUE
    /\ clDPc' = "closed"
    /\ UNCHANGED <<clMu, clCount, clPc, clSeen, clJobs, clJ>>

\* the workers that have done their workerCount++ and not their
\* workerCount--
ClCounted ==
    {w \in ClWorkers : clPc[w] \in {"unlockInc", "range", "print", "send", "lockDec", "dec"}}

\* C18: every read and every write of the shared worker counter is made
\* while holding the counter's lock: a goroutine that stands at an access
\* to workerCount holds mu; and the counter equals the number of workers
\* that have counted themselves in and not yet out.
C18_CounterAccessUnderLock ==
    /\ \A w \in ClWorkers : clPc[w] \in {"inc", "dec", "print"} => clMu = w
    /\ clDPc = "check" => clMu = Dispatcher
    /\ clCount = Cardinality(ClCounted)

(***************************************************************************)
(* MutexWithDeadlockPrevention (mutexes.go:258-287).                       *)
(* Three goroutines run acquireLocks: mu1.Lock(), then mu2.Lock() while    *)
(* mu1 is held, then the work, then the deferred mu2.Unlock() and          *)
(* mu1.Unlock().  main sleeps and returns; the sleep orders nothing.       *)
(* Goroutine positions:                                                    *)
(*   "lock1"    at mu1.Lock()                  (line 266)                  *)
(*   "lock2"    holding mu1, at mu2.Lock()     (line 272)                  *)
(*   "work"     holding mu1 and mu2            (lines 275-277)             *)
(*   "unlock2"  at the deferred mu2.Unlock()   (line 273)                  *)
(*   "unlock1"  at the deferred mu1.Unlock()   (line 267)                  *)
(*   "done"     returned                                                   *)
(***************************************************************************)
VARIABLES
    dlHolder,  \* mutex -> the goroutine that holds it (NoGoroutine: free)
    dlPc,      \* goroutine -> its position
    dlMain     \* main: "sleep", "returned"

dlVars == <<dlHolder, dlPc, dlMain>>

\* the example starts 3 goroutines (line 281); the order of the locks is to
\* hold for any number of them
numGoroutinesDl == 3
NoGoroutine == 0
DlGoroutines == 1..numGoroutinesDl
\* mu1 and mu2
DlMutexes == {1, 2}

\* the mutexes goroutine g holds
DlHeldBy(g) == {m \in DlMutexes : dlHolder[m] = g}

InitDl ==
    /\ dlHolder = [m \in DlMutexes |-> NoGoroutine]
    /\ dlPc = [g \in DlGoroutines |-> "lock1"]
    /\ dlMain = "sleep"

\* mu1.Lock()  (line 266)
DlLock1(g) ==
    /\ dlPc[g] = "lock1"
    /\ dlHolder[1] = NoGoroutine
    /\ dlHolder' = [dlHolder EXCEPT ![1] = g]
    /\ dlPc' = [dlPc EXCEPT ![g] = "lock2"]
    /\ UNCHANGED dlMain

\* mu2.Lock()  (line 272)
DlLock2(g) ==
    /\ dlPc[g] = "lock2"
    /\ dlHolder[2] = NoGoroutine
    /\ dlHolder' = [dlHolder EXCEPT ![2] = g]
    /\ dlPc' = [dlPc EXCEPT ![g] = "work"]
    /\ UNCHANGED dlMain

\* the work is done and acquireLocks returns  (lines 275-278)
DlWork(g) ==
    /\ dlPc[g] = "work"
    /\ dlPc' = [dlPc EXCEPT ![g] = "unlock2"]
    /\ UNCHANGED <<dlHolder, dlMain>>

\* the deferred mu2.Unlock()  (line 273)
DlUnlock2(g) ==
    /\ dlPc[g] = "unlock2"
    /\ dlHolder' = [dlHolder EXCEPT ![2] = NoGoroutine]
    /\ dlPc' = [dlPc EXCEPT ![g] = "unlock1"]
    /\ UNCHANGED dlMain

\* an acquireLocks that returns without releasing mu1
DlUnlock1Skipped(g) ==
    /\ dlPc[g] = "unlock1"
    /\ dlPc' = [dlPc EXCEPT ![g] = "done"]
    /\ UNCHANGED <<dlHolder, dlMain>>

\* the deferred mu1.Unlock()  (line 267)
DlUnlock1(g) ==
    /\ dlPc[g] = "unlock1"
    /\ dlHolder' = [dlHolder EXCEPT ![1] = NoGoroutine]
    /\ dlPc' = [dlPc EXCEPT ![g] = "done"]
    /\ UNCHANGED dlMain

\* time.Sleep(300ms) is over and main returns  (lines 285-286)
DlMainReturn ==
    /\ dlMain = "sleep"
    /\ dlMain' = "returned"
    /\ UNCHANGED <<dlHolder, dlPc>>

\* the steps of goroutine g: the body of acquireLocks  (lines 264-278)
DlStep(g) ==
    \/ DlLock1(g)
    \/ DlLock2(g)
    \/ DlWork(g)
    \/ DlUnlock2(g)
    \/ DlUnlock1(g)

\* C19: at no reachable state does any goroutine hold more than one lock at
\* the same time.
C19_AtMostOneLockHeld ==
    \A g \in DlGoroutines : Cardinality(DlHeldBy(g)) <= 1

(***************************************************************************)
(* Strictness of the two-lane dispatch of WorkerPoolWithPriority           *)
(* (part_012:253-287): what the high lane holds at the moment a worker     *)
(* takes a low-priority job.                                               *)
(***************************************************************************)

\* C20: a low-priority job is taken only when the high-priority lane is
\* empty at the moment it is taken, or the starvation ceiling K has been
\* reached: no step in which a worker takes a low-priority job finds a
\* high-priority job waiting in the high lane.
C20_LowTakenOnlyWhenHighEmpty ==
    [][\A w \in PpWorkers :
          PpTakeLow(w) =>
             \/ ppHigh = <<>>
             \/ ppHighSinceLowHead >= starvationCeilingK]_ppVars

(***************************************************************************)
(* Cancellation of WorkerPoolWithContext (part_012:99-113): what a worker  *)
(* does with the jobs still buffered in jobs once ctx.Done() is closed.    *)
(* The worker's select has the receive from jobs and ctx.Done() as two     *)
(* cases; when both are ready either may be taken.                         *)
(***************************************************************************)

\* C21: once the cancellation token has fired no worker begins a job it had
\* not already started: no step in which a worker receives a job from the
\* job channel is taken with the token fired (the jobs waiting there are
\* left unprocessed), and no worker that holds a job leaves through the
\* Done branch before it has sent the result.
C21_NoJobStartedAfterCancel ==
    [][/\ \A w \in CxWorkers : CxWorkerRecv(w) => ~cxFired
       /\ \A w \in CxWorkers : CxWorkerCancelled(w) => cxJob[w] = 0]_cxVars

(***************************************************************************)
(* What makes a worker of WorkerPoolWithBatching (part_012:323-346) send   *)
(* its batch: the two `results <- batch` statements, one behind            *)
(* len(batch) == batchSize and one behind the end of the range over jobs.  *)
(***************************************************************************)

\* a step in which worker w sends its batch on results
BpFlush(w) == BpWorkerEmit(w) \/ BpWorkerFinal(w)

\* C22: a non-empty partial batch is emitted even when no further job
\* arrives and the input stays open: a worker that holds fewer than
\* batchSize jobs, with the job channel empty and not closed, has a step
\* that sends the batch (the flush of the wait timer started at the first
\* job of the batch).
C22_PartialBatchFlushedByTimer ==
    \A w \in BpWorkers :
        (/\ bpPc[w] = "range"
         /\ bpBatch[w] # <<>>
         /\ bpJobs = <<>>
         /\ ~bpJobsClosed) => ENABLED BpFlush(w)

(***************************************************************************)
(* Progress of MutexWithDeadlockPrevention (mutexes.go:258-287).  The Go   *)
(* scheduler runs every goroutine that is able to run, and a goroutine     *)
(* blocked in Lock() is woken when the mutex is released: each goroutine's *)
(* steps are weakly fair.                                                  *)
(***************************************************************************)

\* a goroutine has not returned and no goroutine can take a step
DlDeadlocked ==
    /\ \E g \in DlGoroutines : dlPc[g] # "done"
    /\ \A g \in DlGoroutines : ~ENABLED DlStep(g)

\* C23: with every goroutine taking mu1 before mu2 and releasing both, no
\* reachable state is a deadlock, and every goroutine eventually acquires
\* both locks, completes its work and releases them: eventually all have
\* returned and both mutexes are free.
C23_ConsistentOrderNoDeadlock ==
    /\ []~DlDeadlocked
    /\ \A g \in DlGoroutines : <>(dlPc[g] = "done")
    /\ <>[](\A m \in DlMutexes : dlHolder[m] = NoGoroutine)

\* every goroutine has returned, the last of them after waiting for both
\* mutexes, and both mutexes are free
C23_Witness ==
    /\ \A g \in DlGoroutines : dlPc[g] = "done"
    /\ \A m \in DlMutexes : dlHolder[m] = NoGoroutine

(***************************************************************************)
(* MutexWithTimeout (mutexes.go:179-217).                                  *)
(* The first goroutine locks mu, sleeps and unlocks it.  The second        *)
(* goroutine runs a select with two cases: a receive from the channel      *)
(* time.After(100ms) returns, created when the select is entered, and a    *)
(* default case whose body is mu.Lock(), the deferred mu.Unlock() and      *)
(* acquired <- true.  main sleeps and then polls acquired.  The first      *)
(* goroutine is at "lock", "hold", "unlock" or "done".  Positions of the   *)
(* second goroutine:                                                       *)
(*   "sleep"     before the select                      (line 196)         *)
(*   "poll"      time.After evaluated, choosing a case  (lines 198-201)    *)
(*   "lock"      in the default case, at mu.Lock()      (line 202)         *)
(*   "send"      holding mu, at acquired <- true        (line 205)         *)
(*   "unlock"    at the deferred mu.Unlock()            (line 203)         *)
(*   "timedout"  returned through the timeout case      (line 200)         *)
(*   "done"      returned through the default case                         *)
(***************************************************************************)
VARIABLES
    mtHolder,    \* the goroutine that holds mu (NoGoroutine: free)
    mtPc,        \* goroutine -> its position
    mtTimer,     \* the time.After channel: "unset", "running", "fired"
    mtAcquired,  \* buffered channel acquired
    mtMain,      \* main: "sleep", "acquired", "timedout"
    mtLate       \* history: the second goroutine's Lock() returned after
                 \* the 100ms had elapsed

mtVars == <<mtHolder, mtPc, mtTimer, mtAcquired, mtMain, mtLate>>

chanCapAcquired == 1
\* the goroutine that holds the lock first, and the one that tries with a
\* timeout
MtFirst == 1
MtSecond == 2

InitMt ==
    /\ mtHolder = NoGoroutine
    /\ mtPc = [g \in {MtFirst, MtSecond} |->
                  IF g = MtFirst THEN "lock" ELSE "sleep"]
    /\ mtTimer = "unset"
    /\ mtAcquired = <<>>
    /\ mtMain = "sleep"
    /\ mtLate = FALSE

\* first goroutine: mu.Lock()  (line 187)
MtFirstLock ==
    /\ mtPc[MtFirst] = "lock"
    /\ mtHolder = NoGoroutine
    /\ mtHolder' = MtFirst
    /\ mtPc' = [mtPc EXCEPT ![MtFirst] = "hold"]
    /\ UNCHANGED <<mtTimer, mtAcquired, mtMain, mtLate>>

\* first goroutine: holds mu for the 200ms sleep  (lines 188-189)
MtFirstHold ==
    /\ mtPc[MtFirst] = "hold"
    /\ mtPc' = [mtPc EXCEPT ![MtFirst] = "unlock"]
    /\ UNCHANGED <<mtHolder, mtTimer, mtAcquired, mtMain, mtLate>>

\* first goroutine: mu.Unlock()  (lines 190-191)
MtFirstUnlock ==
    /\ mtPc[MtFirst] = "unlock"
    /\ mtHolder' = NoGoroutine
    /\ mtPc' = [mtPc EXCEPT ![MtFirst] = "done"]
    /\ UNCHANGED <<mtTimer, mtAcquired, mtMain, mtLate>>

\* second goroutine enters the select: time.After(100ms) is evaluated and
\* its timer starts  (lines 196-199)
MtSecondSelect ==
    /\ mtPc[MtSecond] = "sleep"
    /\ mtTimer' = "running"
    /\ mtPc' = [mtPc EXCEPT ![MtSecond] = "poll"]
    /\ UNCHANGED <<mtHolder, mtAcquired, mtMain, mtLate>>

\* the 100ms of time.After elapse
MtTimerFire ==
    /\ mtTimer = "running"
    /\ mtTimer' = "fired"
    /\ UNCHANGED <<mtHolder, mtPc, mtAcquired, mtMain, mtLate>>

\* case <-time.After(100ms): chosen when the channel is ready at the moment
\* of the select  (lines 199-200)
MtSecondTimeout ==
    /\ mtPc[MtSecond] = "poll"
    /\ mtTimer = "fired"
    /\ mtPc' = [mtPc EXCEPT ![MtSecond] = "timedout"]
    /\ UNCHANGED <<mtHolder, mtTimer, mtAcquired, mtMain, mtLate>>

\* default: chosen when the channel is not ready at the moment of the
\* select; its body starts with mu.Lock(), whoever holds mu  (lines 201-202)
MtSecondDefault ==
    /\ mtPc[MtSecond] = "poll"
    /\ mtTimer # "fired"
    /\ mtPc' = [mtPc EXCEPT ![MtSecond] = "lock"]
    /\ UNCHANGED <<mtHolder, mtTimer, mtAcquired, mtMain, mtLate>>

\* second goroutine: mu.Lock() returns  (line 202)
MtSecondLock ==
    /\ mtPc[MtSecond] = "lock"
    /\ mtHolder = NoGoroutine
    /\ mtHolder' = MtSecond
    /\ mtPc' = [mtPc EXCEPT ![MtSecond] = "send"]
    /\ mtLate' = (mtTimer = "fired")
    /\ UNCHANGED <<mtTimer, mtAcquired, mtMain>>

\* acquired <- true  (line 205)
MtSecondSend ==
    /\ mtPc[MtSecond] = "send"
    /\ Len(mtAcquired) < chanCapAcquired
    /\ mtAcquired' = Append(mtAcquired, TRUE)
    /\ mtPc' = [mtPc EXCEPT ![MtSecond] = "unlock"]
    /\ UNCHANGED <<mtHolder, mtTimer, mtMain, mtLate>>

\* the deferred mu.Unlock()  (line 203)
MtSecondUnlock ==
    /\ mtPc[MtSecond] = "unlock"
    /\ mtHolder' = NoGoroutine
    /\ mtPc' = [mtPc EXCEPT ![MtSecond] = "done"]
    /\ UNCHANGED <<mtTimer, mtAcquired, mtMain, mtLate>>

\* main: case <-acquired  (lines 211-213)
MtMainAcquired ==
    /\ mtMain = "sleep"
    /\ mtAcquired # <<>>
    /\ mtAcquired' = Tail(mtAcquired)
    /\ mtMain' = "acquired"
    /\ UNCHANGED <<mtHolder, mtPc, mtTimer, mtLate>>

\* main: default, "Lock acquisition timed out"  (lines 214-215)
MtMainDefault ==
    /\ mtMain = "sleep"
    /\ mtAcquired = <<>>
    /\ mtMain' = "timedout"
    /\ UNCHANGED <<mtHolder, mtPc, mtTimer, mtAcquired, mtLate>>

\* C24: lock acquisition with timeout.  The second goroutine waits for the
\* lock for at most the timeout: once the 100ms have elapsed with the first
\* goroutine holding the lock, the second goroutine is not blocked on the
\* lock (it has taken the timeout branch), it never obtains the lock after
\* the timeout, and main reports "acquired" only when the second goroutine
\* did not give up.
C24_LockWaitBoundedByTimeout ==
    /\ (mtTimer = "fired" /\ mtHolder = MtFirst) => mtPc[MtSecond] # "lock"
    /\ ~mtLate
    /\ mtMain = "acquired" => mtPc[MtSecond] # "timedout"

(***************************************************************************)
(* close(results) after a fixed wait: WorkerPoolWithContext                *)
(* (part_012:132-133), WorkerPoolWithPriority (part_012:304-305) and       *)
(* WorkerPoolWithMetrics (part_012:416-426) close results while workers    *)
(* may still hold a job.                                                   *)
(***************************************************************************)

\* C25: in the pools whose collector closes the results channel after a
\* fixed wait, no worker ever sends on the results channel after it has
\* been closed.
C25_NoSendOnClosedResults ==
    /\ ~cxPanic
    /\ ~ppPanic
    /\ ~mpPanic

(***************************************************************************)
(* The number of batches of WorkerPoolWithBatching (part_012:314-359):     *)
(* main receives exactly three batches (lines 355-358), whatever share of  *)
(* the 7 jobs each of the 2 workers took.                                  *)
(***************************************************************************)

\* the jobs worker w has put in the batches it sent, in order
RECURSIVE BpJobsSentBy(_, _)
BpJobsSentBy(w, n) ==
    IF n = 0 THEN <<>>
    ELSE BpJobsSentBy(w, n - 1) \o
            (IF bpEmitted[n].worker = w THEN bpEmitted[n].batch ELSE <<>>)

\* every worker has returned
BpWorkersDone == \A w \in BpWorkers : bpPc[w] = "done"

\* C26: with 2 workers, batch size 3 and 7 jobs the number of batches
\* emitted is exactly 3 for every way the jobs are split between the
\* workers: never more than three batches are sent, once both workers have
\* returned exactly three were sent and they hold jobs 1..7 once each, the
\* collector waiting for a batch is never left without one, and when it
\* has done its three receives no batch is left in the channel.
C26_ExactlyThreeBatches ==
    /\ Len(bpEmitted) <= numBatchReads
    /\ BpWorkersDone =>
          /\ Len(bpEmitted) = numBatchReads
          /\ \A j \in BpJobIds : BpTimesEmitted(j) = 1
          /\ bpMain = "collect" => bpResults # <<>>
    /\ bpMain = "done" =>
          /\ Len(bpEmitted) = numBatchReads
          /\ bpResults = <<>>

\* the run is over with the jobs split 6 to 1: one worker sent two full
\* batches and the other a final batch of one job
C26_Witness ==
    /\ bpMain = "done"
    /\ BpWorkersDone
    /\ \E w \in BpWorkers : Len(BpJobsSentBy(w, Len(bpEmitted))) = 2 * batchSize
    /\ \E i \in 1..Len(bpEmitted) : Len(bpEmitted[i].batch) = 1

(***************************************************************************)
(* MutexWithResourcePool (mutexes.go:290-349).                             *)
(* available starts as [1 2 3] and inUse empty.  Five goroutines call      *)
(* acquireResource and, when it returned ok, releaseResource.  Both        *)
(* functions run between mu.Lock() and the deferred mu.Unlock(): the body  *)
(* of each is a single step.  Goroutine positions:                         *)
(*   "acquire"  before acquireResource            (line 339)               *)
(*   "using"    holding a resource, before releaseResource (lines 340-342) *)
(*   "failed"   returned, acquireResource gave ok = false                  *)
(*   "done"     returned after releaseResource                             *)
(***************************************************************************)
VARIABLES
    rpAvailable,  \* the slice available
    rpInUse,      \* the slice inUse
    rpPc,         \* goroutine -> its position
    rpResource    \* goroutine -> its variable resource (0: none)

rpVars == <<rpAvailable, rpInUse, rpPc, rpResource>>

numResources == 3
numGoroutinesRp == 5
RpGoroutines == 1..numGoroutinesRp
RpResources == 1..numResources

InitRp ==
    /\ rpAvailable = [i \in 1..numResources |-> i]
    /\ rpInUse = <<>>
    /\ rpPc = [g \in RpGoroutines |-> "acquire"]
    /\ rpResource = [g \in RpGoroutines |-> 0]

\* a release that leaves inUse as it is
RpRemoveNothing(list, resource) == list

\* for i, r := range inUse { if r == resource { inUse = append(inUse[:i],
\* inUse[i+1:]...); break } }: the list without the first occurrence of
\* resource  (lines 324-329)
RpRemove(list, resource) ==
    IF \E i \in 1..Len(list) : list[i] = resource
       THEN LET i == CHOOSE k \in 1..Len(list) :
                        /\ list[k] = resource
                        /\ \A m \in 1..(k - 1) : list[m] # resource
            IN  SubSeq(list, 1, i - 1) \o SubSeq(list, i + 1, Len(list))
       ELSE list

\* acquireResource with len(available) > 0: the first available resource
\* moves to inUse and is returned with ok = true  (lines 304-312, 339)
RpAcquire(g) ==
    /\ rpPc[g] = "acquire"
    /\ Len(rpAvailable) > 0
    /\ rpAvailable' = Tail(rpAvailable)
    /\ rpInUse' = Append(rpInUse, Head(rpAvailable))
    /\ rpResource' = [rpResource EXCEPT ![g] = Head(rpAvailable)]
    /\ rpPc' = [rpPc EXCEPT ![g] = "using"]

\* acquireResource with nothing available: returns 0, false and the
\* goroutine returns  (lines 304-307, 314-315, 340)
RpAcquireFail(g) ==
    /\ rpPc[g] = "acquire"
    /\ Len(rpAvailable) = 0
    /\ rpPc' = [rpPc EXCEPT ![g] = "failed"]
    /\ UNCHANGED <<rpAvailable, rpInUse, rpResource>>

\* releaseResource: the resource leaves inUse and is appended to available
\* (lines 320-333, 341-342)
RpRelease(g) ==
    /\ rpPc[g] = "using"
    /\ rpInUse' = RpRemove(rpInUse, rpResource[g])
    /\ rpAvailable' = Append(rpAvailable, rpResource[g])
    /\ rpPc' = [rpPc EXCEPT ![g] = "done"]
    /\ UNCHANGED rpResource

\* the goroutines that have been given a resource so far
RpServed == {g \in RpGoroutines : rpPc[g] \in {"using", "done"}}

\* C27: the resource pool invariant.  available and inUse are disjoint and
\* together hold each of the resources 1..3 exactly once; a resource in
\* inUse is held by exactly one goroutine and one in available by none; an
\* acquire has failed only when nothing was available, so only after as
\* many goroutines as there are resources had been served; when every
\* goroutine has finished inUse is empty.
C27_PoolPartition ==
    /\ \A r \in RpResources : Count(rpAvailable, r) + Count(rpInUse, r) = 1
    /\ Len(rpAvailable) + Len(rpInUse) = numResources
    /\ \A r \in RpResources :
          Cardinality({g \in RpGoroutines :
                          rpPc[g] = "using" /\ rpResource[g] = r})
             = Count(rpInUse, r)
    /\ (\E g \in RpGoroutines : rpPc[g] = "failed")
          => Cardinality(RpServed) >= numResources
    /\ (\A g \in RpGoroutines : rpPc[g] \in {"failed", "done"})
          => rpInUse = <<>>

\* every goroutine has finished: one found the pool empty and failed, and
\* one was served a resource that an earlier goroutine had released
C27_Witness ==
    /\ \A g \in RpGoroutines : rpPc[g] \in {"failed", "done"}
    /\ \E g \in RpGoroutines : rpPc[g] = "failed"
    /\ Cardinality(RpServed) > numResources
    /\ rpAvailable # [i \in 1..numResources |-> i]

(***************************************************************************)
(* WaitGroupWithResourceCleanup (waitgroups.go:284-308).                   *)
(* main starts three goroutines, each after wg.Add(1), and waits for them. *)
(* Each goroutine runs resources = append(resources, resource) on the      *)
(* slice it shares with the others, with no lock: the append reads the     *)
(* slice and then stores the extended slice, and another goroutine may run *)
(* between the two.  Goroutine positions:                                  *)
(*   "unstarted"  not spawned yet                                          *)
(*   "read"       before append reads resources        (line 300)          *)
(*   "write"      before the result is stored          (line 300)          *)
(*   "defer"      before the deferred wg.Done()        (lines 294-297)     *)
(*   "done"       returned                                                 *)
(***************************************************************************)
VARIABLES
    rcResources,  \* the shared slice resources (goroutine ids for the
                  \* strings "Resource-<id>")
    rcSeen,       \* goroutine -> the slice its append has read
    rcPc,         \* goroutine -> its position
    rcCounter,    \* the WaitGroup counter
    rcMain        \* main: "spawn", "wait", "done"

rcVars == <<rcResources, rcSeen, rcPc, rcCounter, rcMain>>

numGoroutinesRc == 3
RcGoroutines == 1..numGoroutinesRc

InitRc ==
    /\ rcResources = <<>>
    /\ rcSeen = [g \in RcGoroutines |-> <<>>]
    /\ rcPc = [g \in RcGoroutines |-> "unstarted"]
    /\ rcCounter = 0
    /\ rcMain = "spawn"

\* the loop variable i of main: the next goroutine to start
RcNext == CHOOSE g \in RcGoroutines :
             /\ rcPc[g] = "unstarted"
             /\ \A h \in RcGoroutines : h < g => rcPc[h] # "unstarted"

\* wg.Add(1); go func(id int) {...}(i)  (lines 291-293)
RcMainSpawn ==
    /\ rcMain = "spawn"
    /\ \E g \in RcGoroutines : rcPc[g] = "unstarted"
    /\ rcCounter' = rcCounter + 1
    /\ rcPc' = [rcPc EXCEPT ![RcNext] = "read"]
    /\ UNCHANGED <<rcResources, rcSeen, rcMain>>

\* the loop is over: main goes to wg.Wait()  (lines 291, 306)
RcMainSpawned ==
    /\ rcMain = "spawn"
    /\ \A g \in RcGoroutines : rcPc[g] # "unstarted"
    /\ rcMain' = "wait"
    /\ UNCHANGED <<rcResources, rcSeen, rcPc, rcCounter>>

\* append(resources, resource) reads the shared slice  (lines 299-300)
RcRead(g) ==
    /\ rcPc[g] = "read"
    /\ rcSeen' = [rcSeen EXCEPT ![g] = rcResources]
    /\ rcPc' = [rcPc EXCEPT ![g] = "write"]
    /\ UNCHANGED <<rcResources, rcCounter, rcMain>>

\* resources = ...: the slice that was read, extended by this goroutine's
\* resource, is stored  (lines 300-302)
RcWrite(g) ==
    /\ rcPc[g] = "write"
    /\ rcResources' = Append(rcSeen[g], g)
    /\ rcPc' = [rcPc EXCEPT ![g] = "defer"]
    /\ UNCHANGED <<rcSeen, rcCounter, rcMain>>

\* the deferred cleanup print and wg.Done()  (lines 294-297)
RcDone(g) ==
    /\ rcPc[g] = "defer"
    /\ rcCounter' = rcCounter - 1
    /\ rcPc' = [rcPc EXCEPT ![g] = "done"]
    /\ UNCHANGED <<rcResources, rcSeen, rcMain>>

\* wg.Wait() returns and main prints resources  (lines 306-307)
RcMainWait ==
    /\ rcMain = "wait"
    /\ rcCounter = 0
    /\ rcMain' = "done"
    /\ UNCHANGED <<rcResources, rcSeen, rcPc, rcCounter>>

\* C28: after wg.Wait() has returned the shared slice holds exactly the
\* three entries the goroutines appended, Resource-1, Resource-2 and
\* Resource-3, each once, under every interleaving of the appends.
C28_AllAppendsKept ==
    rcMain = "done" =>
        /\ Len(rcResources) = numGoroutinesRc
        /\ \A g \in RcGoroutines : Count(rcResources, g) = 1

(***************************************************************************)
(* The timeout patterns.  toMode chooses the example that runs:            *)
(*   "wg"      WaitGroupWithTimeout (waitgroups.go:97-134): three workers  *)
(*             under a WaitGroup, a goroutine that sends on the unbuffered *)
(*             channel done after 500ms, a goroutine that closes ch after  *)
(*             wg.Wait(), and main selecting between done and ch           *)
(*   "select"  SelectWithTimeout (select_statements.go:65-83) and          *)
(*             GoroutineWithTimeout (part_012:638-656), the same code with *)
(*             other names: a goroutine that sends on the unbuffered       *)
(*             channel after 2s, and main selecting between that channel   *)
(*             and time.After(1s)                                          *)
(* A send on an unbuffered channel completes only together with a receive: *)
(* it is one step of the sender and of main standing at the select.  The   *)
(* sleeps order nothing.                                                   *)
(***************************************************************************)
VARIABLES
    toMode,     \* "wg" or "select"
    toPc,       \* worker -> "unstarted", "work", "defer", "done"
    toCounter,  \* the WaitGroup counter
    toSender,   \* the goroutine that sends on the unbuffered channel:
                \* "unstarted", "sleep", "send", "done"
    toWaiter,   \* the goroutine around wg.Wait(): "unstarted", "wait", "done"
    toChClosed, \* close(ch) has run
    toMain      \* main: "spawn", "select", and the branch taken: "timeout",
                \* "completed", "received"

toVars == <<toMode, toPc, toCounter, toSender, toWaiter, toChClosed, toMain>>

numWorkersTo == 3
ToWorkers == 1..numWorkersTo

InitTo ==
    /\ toMode \in {"wg", "select"}
    /\ toPc = [w \in ToWorkers |-> "unstarted"]
    /\ toCounter = 0
    /\ toSender = "unstarted"
    /\ toWaiter = "unstarted"
    /\ toChClosed = FALSE
    /\ toMain = "spawn"

\* the loop variable i of main: the next worker to start
ToNextWorker == CHOOSE w \in ToWorkers :
                   /\ toPc[w] = "unstarted"
                   /\ \A v \in ToWorkers : v < w => toPc[v] # "unstarted"

\* wg.Add(1); go func(id int) {...}(i)  (waitgroups.go:104-106)
ToSpawnWorker ==
    /\ toMode = "wg"
    /\ toMain = "spawn"
    /\ \E w \in ToWorkers : toPc[w] = "unstarted"
    /\ toCounter' = toCounter + 1
    /\ toPc' = [toPc EXCEPT ![ToNextWorker] = "work"]
    /\ UNCHANGED <<toMode, toSender, toWaiter, toChClosed, toMain>>

\* go func() { time.Sleep(...); <send> }()  (waitgroups.go:115-118,
\* select_statements.go:71-74, part_012:644-647)
ToSpawnSender ==
    /\ toMain = "spawn"
    /\ toMode = "wg" => \A w \in ToWorkers : toPc[w] # "unstarted"
    /\ toSender = "unstarted"
    /\ toSender' = "sleep"
    /\ toMain' = IF toMode = "wg" THEN "spawn" ELSE "select"
    /\ UNCHANGED <<toMode, toPc, toCounter, toWaiter, toChClosed>>

\* main evaluates the channel expression of its second case: the function
\* literal makes ch, starts the goroutine around wg.Wait() and returns ch
\* (waitgroups.go:121, 124-131)
ToSpawnWaiter ==
    /\ toMode = "wg"
    /\ toMain = "spawn"
    /\ toSender # "unstarted"
    /\ toWaiter' = "wait"
    /\ toMain' = "select"
    /\ UNCHANGED <<toMode, toPc, toCounter, toSender, toChClosed>>

\* a worker's sleep is over and its body ends  (waitgroups.go:108-110)
ToWorkerFinish(w) ==
    /\ toPc[w] = "work"
    /\ toPc' = [toPc EXCEPT ![w] = "defer"]
    /\ UNCHANGED <<toMode, toCounter, toSender, toWaiter, toChClosed, toMain>>

\* the worker's deferred wg.Done()  (waitgroups.go:107)
ToWorkerDone(w) ==
    /\ toPc[w] = "defer"
    /\ toCounter' = toCounter - 1
    /\ toPc' = [toPc EXCEPT ![w] = "done"]
    /\ UNCHANGED <<toMode, toSender, toWaiter, toChClosed, toMain>>

\* the sender's sleep is over: it stands at its send  (waitgroups.go:116-117,
\* select_statements.go:72-73, part_012:645-646)
ToSenderWake ==
    /\ toSender = "sleep"
    /\ toSender' = "send"
    /\ UNCHANGED <<toMode, toPc, toCounter, toWaiter, toChClosed, toMain>>

\* wg.Wait() returns; close(ch)  (waitgroups.go:127-128)
ToWaiterClose ==
    /\ toWaiter = "wait"
    /\ toCounter = 0
    /\ toChClosed' = TRUE
    /\ toWaiter' = "done"
    /\ UNCHANGED <<toMode, toPc, toCounter, toSender, toMain>>

\* the unbuffered send meets main's receive: done <- true with case <-done
\* (waitgroups.go:117, 122-123), ch <- "..." with case result := <-ch
\* (select_statements.go:73, 78-79; part_012:646, 651-652)
ToMainRecv ==
    /\ toMain = "select"
    /\ toSender = "send"
    /\ toSender' = "done"
    /\ toMain' = IF toMode = "wg" THEN "timeout" ELSE "received"
    /\ UNCHANGED <<toMode, toPc, toCounter, toWaiter, toChClosed>>

\* case <-ch on the closed channel  (waitgroups.go:124-132)
ToMainCompleted ==
    /\ toMode = "wg"
    /\ toMain = "select"
    /\ toChClosed
    /\ toMain' = "completed"
    /\ UNCHANGED <<toMode, toPc, toCounter, toSender, toWaiter, toChClosed>>

\* case <-time.After(1 * time.Second)  (select_statements.go:80-81,
\* part_012:653-654)
ToMainTimer ==
    /\ toMode = "select"
    /\ toMain = "select"
    /\ toMain' = "timeout"
    /\ UNCHANGED <<toMode, toPc, toCounter, toSender, toWaiter, toChClosed>>

\* the steps of main, of the sending goroutine and of worker w
ToMainStep ==
    \/ ToSpawnWorker
    \/ ToSpawnSender
    \/ ToSpawnWaiter
    \/ ToMainRecv
    \/ ToMainCompleted
    \/ ToMainTimer

ToSenderStep == ToSenderWake \/ ToMainRecv

ToWorkerStep(w) == ToWorkerFinish(w) \/ ToWorkerDone(w)

\* every goroutine the example started has returned
ToAllReturned ==
    /\ toSender = "done"
    /\ toMode = "wg" =>
          /\ toWaiter = "done"
          /\ \A w \in ToWorkers : toPc[w] = "done"

\* C29: every goroutine spawned by the timeout patterns eventually
\* terminates: after the waiting select has taken one branch, the goroutine
\* feeding the other branch through an unbuffered channel does not remain
\* blocked forever on its send.
C29_NoGoroutineLeft == <>[]ToAllReturned

(***************************************************************************)
(* ConfigReloader (part_011:350-500): Start, Stop, watchLoop and           *)
(* reloadLoop.  NewConfigReloader makes stopChannel and the watcher once   *)
(* (lines 376-383); Start and Stop run under cr.mu, so each call is one    *)
(* step.  The watchLoop and reloadLoop goroutines run the same code        *)
(* whichever Start spawned them and are kept as counts.  Closing a closed  *)
(* channel panics and the panic ends the program.                          *)
(***************************************************************************)
VARIABLES
    crRunning,        \* cr.isRunning
    crStopClosed,     \* close(cr.stopChannel) has run
    crWatcherClosed,  \* cr.watcher.Close() has run: Events and Errors are
                      \* closed
    crCtxDone,        \* the ctx given to Start is done
    crReloadChannel,  \* the number of values buffered in cr.reloadChannel
    crWatchLoops,     \* the number of watchLoop goroutines that run
    crReloadLoops,    \* the number of reloadLoop goroutines that run
    crCalls,          \* the number of Start and Stop calls made so far
    crLast,           \* history: the last call, whether the reloader was
                      \* running when it was made, and what it returned
    crPanic           \* close of a closed channel happened

crVars == <<crRunning, crStopClosed, crWatcherClosed, crCtxDone,
            crReloadChannel, crWatchLoops, crReloadLoops, crCalls, crLast,
            crPanic>>

\* the Start and Stop calls come from outside; the model makes a bounded
\* number of them, in every order
MaxCallsCr == 4
chanCapReload == 1

InitCr ==
    /\ crRunning = FALSE
    /\ crStopClosed = FALSE
    /\ crWatcherClosed = FALSE
    /\ crCtxDone = FALSE
    /\ crReloadChannel = 0
    /\ crWatchLoops = 0
    /\ crReloadLoops = 0
    /\ crCalls = 0
    /\ crLast = [op |-> "none", wasRunning |-> FALSE, result |-> "nil"]
    /\ crPanic = FALSE

\* Start: an error when isRunning, otherwise isRunning = true and the two
\* loops are started  (lines 387-401)
CrStart ==
    /\ ~crPanic
    /\ crCalls < MaxCallsCr
    /\ crCalls' = crCalls + 1
    /\ IF crRunning
          THEN /\ crLast' = [op |-> "Start", wasRunning |-> TRUE,
                             result |-> "error"]
               /\ UNCHANGED <<crRunning, crWatchLoops, crReloadLoops>>
          ELSE /\ crRunning' = TRUE
               /\ crWatchLoops' = crWatchLoops + 1
               /\ crReloadLoops' = crReloadLoops + 1
               /\ crLast' = [op |-> "Start", wasRunning |-> FALSE,
                             result |-> "nil"]
    /\ UNCHANGED <<crStopClosed, crWatcherClosed, crCtxDone, crReloadChannel,
                   crPanic>>

\* Stop: an error when not isRunning, otherwise close(cr.stopChannel),
\* cr.watcher.Close() and isRunning = false; close panics when stopChannel
\* is closed already  (lines 404-417)
CrStop ==
    /\ ~crPanic
    /\ crCalls < MaxCallsCr
    /\ crCalls' = crCalls + 1
    /\ IF ~crRunning
          THEN /\ crLast' = [op |-> "Stop", wasRunning |-> FALSE,
                             result |-> "error"]
               /\ UNCHANGED <<crRunning, crStopClosed, crWatcherClosed,
                              crPanic>>
          ELSE IF crStopClosed
                  THEN /\ crPanic' = TRUE
                       /\ crLast' = [op |-> "Stop", wasRunning |-> TRUE,
                                     result |-> "panic"]
                       /\ UNCHANGED <<crRunning, crStopClosed,
                                      crWatcherClosed>>
                  ELSE /\ crStopClosed' = TRUE
                       /\ crWatcherClosed' = TRUE
                       /\ crRunning' = FALSE
                       /\ crLast' = [op |-> "Stop", wasRunning |-> TRUE,
                                     result |-> "nil"]
                       /\ UNCHANGED crPanic
    /\ UNCHANGED <<crCtxDone, crReloadChannel, crWatchLoops, crReloadLoops>>

\* the context given to Start is cancelled
CrCtxCancel ==
    /\ ~crPanic
    /\ ~crCtxDone
    /\ crCtxDone' = TRUE
    /\ UNCHANGED <<crRunning, crStopClosed, crWatcherClosed, crReloadChannel,
                   crWatchLoops, crReloadLoops, crCalls, crLast, crPanic>>

\* watchLoop receives a Write or Create event for the config file and calls
\* triggerReload: a send on reloadChannel that is dropped when the channel
\* is full  (lines 423-433, 477-483)
CrWatchEvent ==
    /\ ~crPanic
    /\ crWatchLoops > 0
    /\ ~crWatcherClosed
    /\ crReloadChannel' = IF crReloadChannel < chanCapReload
                             THEN crReloadChannel + 1
                             ELSE crReloadChannel
    /\ UNCHANGED <<crRunning, crStopClosed, crWatcherClosed, crCtxDone,
                   crWatchLoops, crReloadLoops, crCalls, crLast, crPanic>>

\* watchLoop returns: Events or Errors is closed, ctx is done or
\* stopChannel is closed  (lines 423-426, 435-438, 441-445)
CrWatchExit ==
    /\ ~crPanic
    /\ crWatchLoops > 0
    /\ crWatcherClosed \/ crCtxDone \/ crStopClosed
    /\ crWatchLoops' = crWatchLoops - 1
    /\ UNCHANGED <<crRunning, crStopClosed, crWatcherClosed, crCtxDone,
                   crReloadChannel, crReloadLoops, crCalls, crLast, crPanic>>

\* reloadLoop receives from reloadChannel and reloads, or skips the reload
\* inside reloadDelay  (lines 454-465)
CrReloadRecv ==
    /\ ~crPanic
    /\ crReloadLoops > 0
    /\ crReloadChannel > 0
    /\ crReloadChannel' = crReloadChannel - 1
    /\ UNCHANGED <<crRunning, crStopClosed, crWatcherClosed, crCtxDone,
                   crWatchLoops, crReloadLoops, crCalls, crLast, crPanic>>

\* reloadLoop returns: ctx is done or stopChannel is closed
\* (lines 467-471)
CrReloadExit ==
    /\ ~crPanic
    /\ crReloadLoops > 0
    /\ crCtxDone \/ crStopClosed
    /\ crReloadLoops' = crReloadLoops - 1
    /\ UNCHANGED <<crRunning, crStopClosed, crWatcherClosed, crCtxDone,
                   crReloadChannel, crWatchLoops, crCalls, crLast, crPanic>>

\* C30: for every sequence of Start and Stop calls, Start fails exactly
\* when the reloader is already running and Stop fails exactly when it is
\* not running (and returns nil otherwise); no sequence closes the stop
\* channel a second time; and while the reloader is running with its
\* context live, after a restart as well, the watch and reload loops have
\* no way to return: the channels whose closing ends them are open.
C30_StartStopRestart ==
    /\ crLast.op = "Start" =>
          crLast.result = (IF crLast.wasRunning THEN "error" ELSE "nil")
    /\ crLast.op = "Stop" =>
          crLast.result = (IF crLast.wasRunning THEN "nil" ELSE "error")
    /\ ~crPanic
    /\ (crRunning /\ ~crCtxDone) =>
          /\ ~ENABLED CrWatchExit
          /\ ~ENABLED CrReloadExit

(***************************************************************************)
(* The specifications: one per example.  The variables of the examples     *)
(* that are not running keep their initial values.                         *)
(***************************************************************************)
vars == <<dsVars, mpVars, foVars, ppVars, bpVars, ctxVars, fiVars, ehVars,
          wgVars, cxVars, rlVars, nbVars, clVars, dlVars, mtVars, rpVars,
          rcVars, toVars, crVars>>

\* the variables SpecDyn leaves alone
OthersDyn == <<mpVars, foVars, ppVars, bpVars, ctxVars, fiVars, ehVars,
               wgVars, cxVars, rlVars, nbVars, clVars, dlVars, mtVars,
               rpVars, rcVars, toVars, crVars>>

NextDyn ==
    \/ DynWorkerStart /\ UNCHANGED OthersDyn
    \/ DynWorkerRecv /\ UNCHANGED OthersDyn
    \/ DynWorkerSend /\ UNCHANGED OthersDyn
    \/ DynWorkerRangeEnd /\ UNCHANGED OthersDyn
    \/ DynWorkerExit /\ UNCHANGED OthersDyn
    \/ DynDispatchSend /\ UNCHANGED OthersDyn
    \/ DynDispatchScale /\ UNCHANGED OthersDyn
    \/ DynDispatchClose /\ UNCHANGED OthersDyn
    \/ DynCollect /\ UNCHANGED OthersDyn

InitDynSpec ==
    /\ InitDyn
    /\ InitMetrics
    /\ InitFanOut
    /\ InitPriority
    /\ InitBatch
    /\ InitContext
    /\ InitFanIn /\ fiMode = "wg"
    /\ InitErr
    /\ InitWg
    /\ InitCtxPool
    /\ InitRate
    /\ InitNb
    /\ InitCl
    /\ InitDl
    /\ InitMt
    /\ InitRp
    /\ InitRc
    /\ InitTo /\ toMode = "wg"
    /\ InitCr

SpecDyn == InitDynSpec /\ [][NextDyn]_vars

\* the variables SpecMetrics leaves alone
OthersMetrics == <<dsVars, foVars, ppVars, bpVars, ctxVars, fiVars, ehVars,
                   wgVars, cxVars, rlVars, nbVars, clVars, dlVars, mtVars,
                   rpVars, rcVars, toVars, crVars>>

NextMetrics ==
    \/ (\E w \in MpWorkers : MpWorkerRecv(w)) /\ UNCHANGED OthersMetrics
    \/ (\E w \in MpWorkers : MpWorkerFail(w)) /\ UNCHANGED OthersMetrics
    \/ (\E w \in MpWorkers : MpWorkerSend(w)) /\ UNCHANGED OthersMetrics
    \/ (\E w \in MpWorkers : MpWorkerSendPanic(w)) /\ UNCHANGED OthersMetrics
    \/ (\E w \in MpWorkers : MpWorkerRangeEnd(w)) /\ UNCHANGED OthersMetrics
    \/ (\E w \in MpWorkers : MpWorkerMetrics(w)) /\ UNCHANGED OthersMetrics
    \/ MpMainSend /\ UNCHANGED OthersMetrics
    \/ MpMainCloseJobs /\ UNCHANGED OthersMetrics
    \/ MpMainCollect /\ UNCHANGED OthersMetrics
    \/ MpMainTimeout /\ UNCHANGED OthersMetrics
    \/ MpMainCloseResults /\ UNCHANGED OthersMetrics
    \/ MpMainMetrics /\ UNCHANGED OthersMetrics

InitMetricsSpec ==
    /\ InitDyn
    /\ InitMetrics
    /\ InitFanOut
    /\ InitPriority
    /\ InitBatch
    /\ InitContext
    /\ InitFanIn /\ fiMode = "wg"
    /\ InitErr
    /\ InitWg
    /\ InitCtxPool
    /\ InitRate
    /\ InitNb
    /\ InitCl
    /\ InitDl
    /\ InitMt
    /\ InitRp
    /\ InitRc
    /\ InitTo /\ toMode = "wg"
    /\ InitCr

SpecMetrics == InitMetricsSpec /\ [][NextMetrics]_vars

\* the variables SpecFanOut leaves alone
OthersFanOut == <<dsVars, mpVars, ppVars, bpVars, ctxVars, fiVars, ehVars,
                  wgVars, cxVars, rlVars, nbVars, clVars, dlVars, mtVars,
                  rpVars, rcVars, toVars, crVars>>

NextFanOut ==
    \/ FoProducerSend /\ UNCHANGED OthersFanOut
    \/ FoProducerClose /\ UNCHANGED OthersFanOut
    \/ (\E w \in Lanes : FoLaneRecv(w)) /\ UNCHANGED OthersFanOut
    \/ (\E w \in Lanes : FoLaneSend(w)) /\ UNCHANGED OthersFanOut
    \/ (\E w \in Lanes : FoLaneClose(w)) /\ UNCHANGED OthersFanOut
    \/ (\E w \in Lanes : FoCollect(w)) /\ UNCHANGED OthersFanOut
    \/ (\E w \in Lanes : FoCollectEnd(w)) /\ UNCHANGED OthersFanOut
    \/ FoWait /\ UNCHANGED OthersFanOut

InitFanOutSpec ==
    /\ InitDyn
    /\ InitMetrics
    /\ InitFanOut
    /\ InitPriority
    /\ InitBatch
    /\ InitContext
    /\ InitFanIn /\ fiMode = "wg"
    /\ InitErr
    /\ InitWg
    /\ InitCtxPool
    /\ InitRate
    /\ InitNb
    /\ InitCl
    /\ InitDl
    /\ InitMt
    /\ InitRp
    /\ InitRc
    /\ InitTo /\ toMode = "wg"
    /\ InitCr

SpecFanOut == InitFanOutSpec /\ [][NextFanOut]_vars

\* the variables SpecPriority leaves alone
OthersPriority == <<dsVars, mpVars, foVars, bpVars, ctxVars, fiVars, ehVars,
                    wgVars, cxVars, rlVars, nbVars, clVars, dlVars, mtVars,
                    rpVars, rcVars, toVars, crVars>>

NextPriority ==
    \/ (\E w \in PpWorkers : PpTakeHigh(w)) /\ UNCHANGED OthersPriority
    \/ (\E w \in PpWorkers : PpHighEnded(w)) /\ UNCHANGED OthersPriority
    \/ (\E w \in PpWorkers : PpDefault(w)) /\ UNCHANGED OthersPriority
    \/ (\E w \in PpWorkers : PpTakeLow(w)) /\ UNCHANGED OthersPriority
    \/ (\E w \in PpWorkers : PpLowEnded(w)) /\ UNCHANGED OthersPriority
    \/ (\E w \in PpWorkers : PpTimeout(w)) /\ UNCHANGED OthersPriority
    \/ (\E w \in PpWorkers : PpSend(w)) /\ UNCHANGED OthersPriority
    \/ (\E w \in PpWorkers : PpCheck(w)) /\ UNCHANGED OthersPriority
    \/ PpHighSend /\ UNCHANGED OthersPriority
    \/ PpHighClose /\ UNCHANGED OthersPriority
    \/ PpLowSend /\ UNCHANGED OthersPriority
    \/ PpLowClose /\ UNCHANGED OthersPriority
    \/ PpMainClose /\ UNCHANGED OthersPriority
    \/ PpMainCollect /\ UNCHANGED OthersPriority

InitPrioritySpec ==
    /\ InitDyn
    /\ InitMetrics
    /\ InitFanOut
    /\ InitPriority
    /\ InitBatch
    /\ InitContext
    /\ InitFanIn /\ fiMode = "wg"
    /\ InitErr
    /\ InitWg
    /\ InitCtxPool
    /\ InitRate
    /\ InitNb
    /\ InitCl
    /\ InitDl
    /\ InitMt
    /\ InitRp
    /\ InitRc
    /\ InitTo /\ toMode = "wg"
    /\ InitCr

SpecPriority == InitPrioritySpec /\ [][NextPriority]_vars

\* the variables SpecBatch leaves alone
OthersBatch == <<dsVars, mpVars, foVars, ppVars, ctxVars, fiVars, ehVars,
                 wgVars, cxVars, rlVars, nbVars, clVars, dlVars, mtVars,
                 rpVars, rcVars, toVars, crVars>>

NextBatch ==
    \/ (\E w \in BpWorkers : BpWorkerRecv(w)) /\ UNCHANGED OthersBatch
    \/ (\E w \in BpWorkers : BpWorkerEmit(w)) /\ UNCHANGED OthersBatch
    \/ (\E w \in BpWorkers : BpWorkerRangeEnd(w)) /\ UNCHANGED OthersBatch
    \/ (\E w \in BpWorkers : BpWorkerFinal(w)) /\ UNCHANGED OthersBatch
    \/ BpMainSend /\ UNCHANGED OthersBatch
    \/ BpMainClose /\ UNCHANGED OthersBatch
    \/ BpMainCollect /\ UNCHANGED OthersBatch

InitBatchSpec ==
    /\ InitDyn
    /\ InitMetrics
    /\ InitFanOut
    /\ InitPriority
    /\ InitBatch
    /\ InitContext
    /\ InitFanIn /\ fiMode = "wg"
    /\ InitErr
    /\ InitWg
    /\ InitCtxPool
    /\ InitRate
    /\ InitNb
    /\ InitCl
    /\ InitDl
    /\ InitMt
    /\ InitRp
    /\ InitRc
    /\ InitTo /\ toMode = "wg"
    /\ InitCr

SpecBatch == InitBatchSpec /\ [][NextBatch]_vars

\* the variables SpecContext leaves alone
OthersContext == <<dsVars, mpVars, foVars, ppVars, bpVars, fiVars, ehVars,
                   wgVars, cxVars, rlVars, nbVars, clVars, dlVars, mtVars,
                   rpVars, rcVars, toVars, crVars>>

NextContext ==
    \/ (\E id \in Tokens, p \in Tokens \cup {Background} : CtxWithCancel(id, p)) /\ UNCHANGED OthersContext
    \/ (\E id \in Tokens, p \in Tokens \cup {Background}, dur \in 1..MaxTime : CtxWithTimeout(id, p, dur)) /\ UNCHANGED OthersContext
    \/ (\E t \in Tokens : CtxCancel(t)) /\ UNCHANGED OthersContext
    \/ (\E t \in Tokens : CtxTimerFire(t)) /\ UNCHANGED OthersContext
    \/ CtxTick /\ UNCHANGED OthersContext

InitContextSpec ==
    /\ InitDyn
    /\ InitMetrics
    /\ InitFanOut
    /\ InitPriority
    /\ InitBatch
    /\ InitContext
    /\ InitFanIn /\ fiMode = "wg"
    /\ InitErr
    /\ InitWg
    /\ InitCtxPool
    /\ InitRate
    /\ InitNb
    /\ InitCl
    /\ InitDl
    /\ InitMt
    /\ InitRp
    /\ InitRc
    /\ InitTo /\ toMode = "wg"
    /\ InitCr

SpecContext == InitContextSpec /\ [][NextContext]_vars

\* the variables SpecFanIn leaves alone
OthersFanIn == <<dsVars, mpVars, foVars, ppVars, bpVars, ctxVars, ehVars,
                 wgVars, cxVars, rlVars, nbVars, clVars, dlVars, mtVars,
                 rpVars, rcVars, toVars, crVars>>

NextFanIn ==
    \/ (\E l \in FiLanes : FiProducerSend(l)) /\ UNCHANGED OthersFanIn
    \/ (\E l \in FiLanes : FiProducerClose(l)) /\ UNCHANGED OthersFanIn
    \/ (\E l \in FiLanes : FiForwardRecv(l)) /\ UNCHANGED OthersFanIn
    \/ (\E l \in FiLanes : FiForwardSend(l)) /\ UNCHANGED OthersFanIn
    \/ (\E l \in FiLanes : FiForwardDone(l)) /\ UNCHANGED OthersFanIn
    \/ FiWaitAndClose /\ UNCHANGED OthersFanIn
    \/ (\E l \in FiLanes : FiSelectRecv(l)) /\ UNCHANGED OthersFanIn
    \/ (\E l \in FiLanes : FiSelectSend(l)) /\ UNCHANGED OthersFanIn
    \/ (\E l \in FiLanes : FiSelectClosed(l)) /\ UNCHANGED OthersFanIn
    \/ FiMainCollect /\ UNCHANGED OthersFanIn

InitFanInSpec ==
    /\ InitDyn
    /\ InitMetrics
    /\ InitFanOut
    /\ InitPriority
    /\ InitBatch
    /\ InitContext
    /\ InitFanIn
    /\ InitErr
    /\ InitWg
    /\ InitCtxPool
    /\ InitRate
    /\ InitNb
    /\ InitCl
    /\ InitDl
    /\ InitMt
    /\ InitRp
    /\ InitRc
    /\ InitTo /\ toMode = "wg"
    /\ InitCr

SpecFanIn == InitFanInSpec /\ [][NextFanIn]_vars

\* the variables SpecErr leaves alone
OthersErr == <<dsVars, mpVars, foVars, ppVars, bpVars, ctxVars, fiVars,
               wgVars, cxVars, rlVars, nbVars, clVars, dlVars, mtVars,
               rpVars, rcVars, toVars, crVars>>

NextErr ==
    \/ (\E w \in EhWorkers : EhWorkerRecv(w)) /\ UNCHANGED OthersErr
    \/ (\E w \in EhWorkers : EhWorkerSend(w)) /\ UNCHANGED OthersErr
    \/ (\E w \in EhWorkers : EhWorkerRangeEnd(w)) /\ UNCHANGED OthersErr
    \/ EhMainSend /\ UNCHANGED OthersErr
    \/ EhMainClose /\ UNCHANGED OthersErr
    \/ EhMainCollect /\ UNCHANGED OthersErr

InitErrSpec ==
    /\ InitDyn
    /\ InitMetrics
    /\ InitFanOut
    /\ InitPriority
    /\ InitBatch
    /\ InitContext
    /\ InitFanIn /\ fiMode = "wg"
    /\ InitErr
    /\ InitWg
    /\ InitCtxPool
    /\ InitRate
    /\ InitNb
    /\ InitCl
    /\ InitDl
    /\ InitMt
    /\ InitRp
    /\ InitRc
    /\ InitTo /\ toMode = "wg"
    /\ InitCr

SpecErr == InitErrSpec /\ [][NextErr]_vars

\* the variables SpecWg leaves alone
OthersWg == <<dsVars, mpVars, foVars, ppVars, bpVars, ctxVars, fiVars,
              ehVars, cxVars, rlVars, nbVars, clVars, dlVars, mtVars, rpVars,
              rcVars, toVars, crVars>>

NextWg ==
    \/ WgMainStart /\ UNCHANGED OthersWg
    \/ WgMainStarted /\ UNCHANGED OthersWg
    \/ WgProducerSend /\ UNCHANGED OthersWg
    \/ WgProducerClose /\ UNCHANGED OthersWg
    \/ (\E w \in WgWorkers : WgWorkerRecv(w)) /\ UNCHANGED OthersWg
    \/ (\E w \in WgWorkers : WgWorkerSend(w)) /\ UNCHANGED OthersWg
    \/ (\E w \in WgWorkers : WgWorkerDone(w)) /\ UNCHANGED OthersWg
    \/ WgMainWait /\ UNCHANGED OthersWg
    \/ WgMainClose /\ UNCHANGED OthersWg
    \/ WgMainCollect /\ UNCHANGED OthersWg
    \/ WgMainCollectEnd /\ UNCHANGED OthersWg

InitWgSpec ==
    /\ InitDyn
    /\ InitMetrics
    /\ InitFanOut
    /\ InitPriority
    /\ InitBatch
    /\ InitContext
    /\ InitFanIn /\ fiMode = "wg"
    /\ InitErr
    /\ InitWg
    /\ InitCtxPool
    /\ InitRate
    /\ InitNb
    /\ InitCl
    /\ InitDl
    /\ InitMt
    /\ InitRp
    /\ InitRc
    /\ InitTo /\ toMode = "wg"
    /\ InitCr

SpecWg == InitWgSpec /\ [][NextWg]_vars

\* the variables SpecCtxPool leaves alone
OthersCtxPool == <<dsVars, mpVars, foVars, ppVars, bpVars, ctxVars, fiVars,
                   ehVars, wgVars, rlVars, nbVars, clVars, dlVars, mtVars,
                   rpVars, rcVars, toVars, crVars>>

NextCtxPool ==
    \/ CxTimeout /\ UNCHANGED OthersCtxPool
    \/ (\E w \in CxWorkers : CxWorkerRecv(w)) /\ UNCHANGED OthersCtxPool
    \/ (\E w \in CxWorkers : CxWorkerJobsClosed(w)) /\ UNCHANGED OthersCtxPool
    \/ (\E w \in CxWorkers : CxWorkerCancelled(w)) /\ UNCHANGED OthersCtxPool
    \/ (\E w \in CxWorkers : CxWorkerSend(w)) /\ UNCHANGED OthersCtxPool
    \/ CxProducerSend /\ UNCHANGED OthersCtxPool
    \/ CxProducerCancelled /\ UNCHANGED OthersCtxPool
    \/ CxProducerClose /\ UNCHANGED OthersCtxPool
    \/ CxMainClose /\ UNCHANGED OthersCtxPool
    \/ CxMainCollect /\ UNCHANGED OthersCtxPool
    \/ CxMainReturn /\ UNCHANGED OthersCtxPool

InitCtxPoolSpec ==
    /\ InitDyn
    /\ InitMetrics
    /\ InitFanOut
    /\ InitPriority
    /\ InitBatch
    /\ InitContext
    /\ InitFanIn /\ fiMode = "wg"
    /\ InitErr
    /\ InitWg
    /\ InitCtxPool
    /\ InitRate
    /\ InitNb
    /\ InitCl
    /\ InitDl
    /\ InitMt
    /\ InitRp
    /\ InitRc
    /\ InitTo /\ toMode = "wg"
    /\ InitCr

SpecCtxPool == InitCtxPoolSpec /\ [][NextCtxPool]_vars

\* the variables SpecRate leaves alone
OthersRate == <<dsVars, mpVars, foVars, ppVars, bpVars, ctxVars, fiVars,
                ehVars, wgVars, cxVars, nbVars, clVars, dlVars, mtVars,
                rpVars, rcVars, toVars, crVars>>

NextRate ==
    \/ RlTick /\ UNCHANGED OthersRate
    \/ (\E w \in RlWorkers : RlWorkerRecv(w)) /\ UNCHANGED OthersRate
    \/ (\E w \in RlWorkers : RlWorkerAcquire(w)) /\ UNCHANGED OthersRate
    \/ (\E w \in RlWorkers : RlWorkerSend(w)) /\ UNCHANGED OthersRate
    \/ (\E w \in RlWorkers : RlWorkerRangeEnd(w)) /\ UNCHANGED OthersRate
    \/ RlMainSend /\ UNCHANGED OthersRate
    \/ RlMainClose /\ UNCHANGED OthersRate
    \/ RlMainCollect /\ UNCHANGED OthersRate

InitRateSpec ==
    /\ InitDyn
    /\ InitMetrics
    /\ InitFanOut
    /\ InitPriority
    /\ InitBatch
    /\ InitContext
    /\ InitFanIn /\ fiMode = "wg"
    /\ InitErr
    /\ InitWg
    /\ InitCtxPool
    /\ InitRate
    /\ InitNb
    /\ InitCl
    /\ InitDl
    /\ InitMt
    /\ InitRp
    /\ InitRc
    /\ InitTo /\ toMode = "wg"
    /\ InitCr

SpecRate == InitRateSpec /\ [][NextRate]_vars

\* the variables SpecNb leaves alone
OthersNb == <<dsVars, mpVars, foVars, ppVars, bpVars, ctxVars, fiVars,
              ehVars, wgVars, cxVars, rlVars, clVars, dlVars, mtVars, rpVars,
              rcVars, toVars, crVars>>

NextNb ==
    \/ NbTrySend /\ UNCHANGED OthersNb
    \/ NbTryRecv /\ UNCHANGED OthersNb

InitNbSpec ==
    /\ InitDyn
    /\ InitMetrics
    /\ InitFanOut
    /\ InitPriority
    /\ InitBatch
    /\ InitContext
    /\ InitFanIn /\ fiMode = "wg"
    /\ InitErr
    /\ InitWg
    /\ InitCtxPool
    /\ InitRate
    /\ InitNb
    /\ InitCl
    /\ InitDl
    /\ InitMt
    /\ InitRp
    /\ InitRc
    /\ InitTo /\ toMode = "wg"
    /\ InitCr

SpecNb == InitNbSpec /\ [][NextNb]_vars

\* the variables SpecCl leaves alone
OthersCl == <<dsVars, mpVars, foVars, ppVars, bpVars, ctxVars, fiVars,
              ehVars, wgVars, cxVars, rlVars, nbVars, dlVars, mtVars, rpVars,
              rcVars, toVars, crVars>>

NextCl ==
    \/ (\E w \in ClWorkers : ClWorkerLock(w)) /\ UNCHANGED OthersCl
    \/ (\E w \in ClWorkers : ClWorkerInc(w)) /\ UNCHANGED OthersCl
    \/ (\E w \in ClWorkers : ClWorkerDec(w)) /\ UNCHANGED OthersCl
    \/ (\E w \in ClWorkers : ClWorkerUnlock(w)) /\ UNCHANGED OthersCl
    \/ (\E w \in ClWorkers : ClWorkerRecv(w)) /\ UNCHANGED OthersCl
    \/ (\E w \in ClWorkers : ClWorkerPrint(w)) /\ UNCHANGED OthersCl
    \/ (\E w \in ClWorkers : ClWorkerSend(w)) /\ UNCHANGED OthersCl
    \/ (\E w \in ClWorkers : ClWorkerRangeEnd(w)) /\ UNCHANGED OthersCl
    \/ ClDispatchSend /\ UNCHANGED OthersCl
    \/ ClDispatchLock /\ UNCHANGED OthersCl
    \/ ClDispatchCheck /\ UNCHANGED OthersCl
    \/ ClDispatchUnlock /\ UNCHANGED OthersCl
    \/ ClDispatchClose /\ UNCHANGED OthersCl

InitClSpec ==
    /\ InitDyn
    /\ InitMetrics
    /\ InitFanOut
    /\ InitPriority
    /\ InitBatch
    /\ InitContext
    /\ InitFanIn /\ fiMode = "wg"
    /\ InitErr
    /\ InitWg
    /\ InitCtxPool
    /\ InitRate
    /\ InitNb
    /\ InitCl
    /\ InitDl
    /\ InitMt
    /\ InitRp
    /\ InitRc
    /\ InitTo /\ toMode = "wg"
    /\ InitCr

SpecCl == InitClSpec /\ [][NextCl]_vars

\* the variables SpecDl leaves alone
OthersDl == <<dsVars, mpVars, foVars, ppVars, bpVars, ctxVars, fiVars,
              ehVars, wgVars, cxVars, rlVars, nbVars, clVars, mtVars, rpVars,
              rcVars, toVars, crVars>>

NextDl ==
    \/ (\E g \in DlGoroutines : DlLock1(g)) /\ UNCHANGED OthersDl
    \/ (\E g \in DlGoroutines : DlLock2(g)) /\ UNCHANGED OthersDl
    \/ (\E g \in DlGoroutines : DlWork(g)) /\ UNCHANGED OthersDl
    \/ (\E g \in DlGoroutines : DlUnlock2(g)) /\ UNCHANGED OthersDl
    \/ (\E g \in DlGoroutines : DlUnlock1(g)) /\ UNCHANGED OthersDl
    \/ DlMainReturn /\ UNCHANGED OthersDl

InitDlSpec ==
    /\ InitDyn
    /\ InitMetrics
    /\ InitFanOut
    /\ InitPriority
    /\ InitBatch
    /\ InitContext
    /\ InitFanIn /\ fiMode = "wg"
    /\ InitErr
    /\ InitWg
    /\ InitCtxPool
    /\ InitRate
    /\ InitNb
    /\ InitCl
    /\ InitDl
    /\ InitMt
    /\ InitRp
    /\ InitRc
    /\ InitTo /\ toMode = "wg"
    /\ InitCr

SpecDl == InitDlSpec /\ [][NextDl]_vars

\* every goroutine that can run does run
SpecDlFair == SpecDl /\ \A g \in DlGoroutines : WF_dlVars(DlStep(g))

\* the variables SpecMt leaves alone
OthersMt == <<dsVars, mpVars, foVars, ppVars, bpVars, ctxVars, fiVars,
              ehVars, wgVars, cxVars, rlVars, nbVars, clVars, dlVars, rpVars,
              rcVars, toVars, crVars>>

NextMt ==
    \/ MtFirstLock /\ UNCHANGED OthersMt
    \/ MtFirstHold /\ UNCHANGED OthersMt
    \/ MtFirstUnlock /\ UNCHANGED OthersMt
    \/ MtSecondSelect /\ UNCHANGED OthersMt
    \/ MtTimerFire /\ UNCHANGED OthersMt
    \/ MtSecondTimeout /\ UNCHANGED OthersMt
    \/ MtSecondDefault /\ UNCHANGED OthersMt
    \/ MtSecondLock /\ UNCHANGED OthersMt
    \/ MtSecondSend /\ UNCHANGED OthersMt
    \/ MtSecondUnlock /\ UNCHANGED OthersMt
    \/ MtMainAcquired /\ UNCHANGED OthersMt
    \/ MtMainDefault /\ UNCHANGED OthersMt

InitMtSpec ==
    /\ InitDyn
    /\ InitMetrics
    /\ InitFanOut
    /\ InitPriority
    /\ InitBatch
    /\ InitContext
    /\ InitFanIn /\ fiMode = "wg"
    /\ InitErr
    /\ InitWg
    /\ InitCtxPool
    /\ InitRate
    /\ InitNb
    /\ InitCl
    /\ InitDl
    /\ InitMt
    /\ InitRp
    /\ InitRc
    /\ InitTo /\ toMode = "wg"
    /\ InitCr

SpecMt == InitMtSpec /\ [][NextMt]_vars

\* the variables SpecRp leaves alone
OthersRp == <<dsVars, mpVars, foVars, ppVars, bpVars, ctxVars, fiVars,
              ehVars, wgVars, cxVars, rlVars, nbVars, clVars, dlVars, mtVars,
              rcVars, toVars, crVars>>

NextRp ==
    \/ (\E g \in RpGoroutines : RpAcquire(g)) /\ UNCHANGED OthersRp
    \/ (\E g \in RpGoroutines : RpAcquireFail(g)) /\ UNCHANGED OthersRp
    \/ (\E g \in RpGoroutines : RpRelease(g)) /\ UNCHANGED OthersRp

InitRpSpec ==
    /\ InitDyn
    /\ InitMetrics
    /\ InitFanOut
    /\ InitPriority
    /\ InitBatch
    /\ InitContext
    /\ InitFanIn /\ fiMode = "wg"
    /\ InitErr
    /\ InitWg
    /\ InitCtxPool
    /\ InitRate
    /\ InitNb
    /\ InitCl
    /\ InitDl
    /\ InitMt
    /\ InitRp
    /\ InitRc
    /\ InitTo /\ toMode = "wg"
    /\ InitCr

SpecRp == InitRpSpec /\ [][NextRp]_vars

\* the variables SpecRc leaves alone
OthersRc == <<dsVars, mpVars, foVars, ppVars, bpVars, ctxVars, fiVars,
              ehVars, wgVars, cxVars, rlVars, nbVars, clVars, dlVars, mtVars,
              rpVars, toVars, crVars>>

NextRc ==
    \/ RcMainSpawn /\ UNCHANGED OthersRc
    \/ RcMainSpawned /\ UNCHANGED OthersRc
    \/ (\E g \in RcGoroutines : RcRead(g)) /\ UNCHANGED OthersRc
    \/ (\E g \in RcGoroutines : RcWrite(g)) /\ UNCHANGED OthersRc
    \/ (\E g \in RcGoroutines : RcDone(g)) /\ UNCHANGED OthersRc
    \/ RcMainWait /\ UNCHANGED OthersRc

InitRcSpec ==
    /\ InitDyn
    /\ InitMetrics
    /\ InitFanOut
    /\ InitPriority
    /\ InitBatch
    /\ InitContext
    /\ InitFanIn /\ fiMode = "wg"
    /\ InitErr
    /\ InitWg
    /\ InitCtxPool
    /\ InitRate
    /\ InitNb
    /\ InitCl
    /\ InitDl
    /\ InitMt
    /\ InitRp
    /\ InitRc
    /\ InitTo /\ toMode = "wg"
    /\ InitCr

SpecRc == InitRcSpec /\ [][NextRc]_vars

\* the variables SpecTo leaves alone
OthersTo == <<dsVars, mpVars, foVars, ppVars, bpVars, ctxVars, fiVars,
              ehVars, wgVars, cxVars, rlVars, nbVars, clVars, dlVars, mtVars,
              rpVars, rcVars, crVars>>

NextTo ==
    \/ ToSpawnWorker /\ UNCHANGED OthersTo
    \/ ToSpawnSender /\ UNCHANGED OthersTo
    \/ ToSpawnWaiter /\ UNCHANGED OthersTo
    \/ (\E w \in ToWorkers : ToWorkerFinish(w)) /\ UNCHANGED OthersTo
    \/ (\E w \in ToWorkers : ToWorkerDone(w)) /\ UNCHANGED OthersTo
    \/ ToSenderWake /\ UNCHANGED OthersTo
    \/ ToWaiterClose /\ UNCHANGED OthersTo
    \/ ToMainRecv /\ UNCHANGED OthersTo
    \/ ToMainCompleted /\ UNCHANGED OthersTo
    \/ ToMainTimer /\ UNCHANGED OthersTo

InitToSpec ==
    /\ InitDyn
    /\ InitMetrics
    /\ InitFanOut
    /\ InitPriority
    /\ InitBatch
    /\ InitContext
    /\ InitFanIn /\ fiMode = "wg"
    /\ InitErr
    /\ InitWg
    /\ InitCtxPool
    /\ InitRate
    /\ InitNb
    /\ InitCl
    /\ InitDl
    /\ InitMt
    /\ InitRp
    /\ InitRc
    /\ InitTo
    /\ InitCr

SpecTo == InitToSpec /\ [][NextTo]_vars

\* every goroutine that can run does run
SpecToFair ==
    /\ SpecTo
    /\ WF_toVars(ToMainStep)
    /\ WF_toVars(ToSenderStep)
    /\ WF_toVars(ToWaiterClose)
    /\ \A w \in ToWorkers : WF_toVars(ToWorkerStep(w))

\* the variables SpecCr leaves alone
OthersCr == <<dsVars, mpVars, foVars, ppVars, bpVars, ctxVars, fiVars,
              ehVars, wgVars, cxVars, rlVars, nbVars, clVars, dlVars, mtVars,
              rpVars, rcVars, toVars>>

NextCr ==
    \/ CrStart /\ UNCHANGED OthersCr
    \/ CrStop /\ UNCHANGED OthersCr
    \/ CrCtxCancel /\ UNCHANGED OthersCr
    \/ CrWatchEvent /\ UNCHANGED OthersCr
    \/ CrWatchExit /\ UNCHANGED OthersCr
    \/ CrReloadRecv /\ UNCHANGED OthersCr
    \/ CrReloadExit /\ UNCHANGED OthersCr

InitCrSpec ==
    /\ InitDyn
    /\ InitMetrics
    /\ InitFanOut
    /\ InitPriority
    /\ InitBatch
    /\ InitContext
    /\ InitFanIn /\ fiMode = "wg"
    /\ InitErr
    /\ InitWg
    /\ InitCtxPool
    /\ InitRate
    /\ InitNb
    /\ InitCl
    /\ InitDl
    /\ InitMt
    /\ InitRp
    /\ InitRc
    /\ InitTo /\ toMode = "wg"
    /\ InitCr

SpecCr == InitCrSpec /\ [][NextCr]_vars

====
